---- MODULE Spec2Model ----
(***************************************************************************)
(* Model of study-planner: the planning core (src/planner.py:              *)
(* compute_busy_minutes_by_day, _available_minutes_for_day,                *)
(* generate_week_plan, reschedule_overdue, build_risk_list), the calendar  *)
(* export (src/calendar_export.py), the storage (src/storage.py) and the   *)
(* handlers of the Setup and Plan pages (src/app.py).                      *)
(*                                                                         *)
(* Dates are day numbers (day 0 is a Monday, so weekday(d) = d % 7),       *)
(* datetimes are seconds since 00:00 of day 0, strings that are compared   *)
(* or lower-cased (subject names) are sequences of character codes, and    *)
(* uuid4() is a counter of fresh ids.                                      *)
(***************************************************************************)
EXTENDS Integers, Sequences, FiniteSets, TLC

VARIABLES
    subjects,        \* List[Subject], argument of generate_week_plan
    tasks,           \* List[Task], the task list passed to the call
    events,          \* List[Event]
    settings,        \* Settings
    today,           \* date
    pc,              \* position of the running call
    result,          \* the list the call returned
    uuid,            \* next fresh task id (uuid4)
    busy_by_day,     \* Dict[date, int]
    day_capacity,    \* generate_week_plan: Dict[date, int]
    remaining,       \* generate_week_plan: Dict[subject id, int]
    chunk,           \* generate_week_plan: chunk size
    new_tasks,       \* generate_week_plan: List[Task]
    di,              \* generate_week_plan: index of d in days
    cap,             \* generate_week_plan: capacity left on day d
    overdue,         \* reschedule_overdue: List[Task]
    keep,            \* reschedule_overdue: List[Task]
    planned_minutes, \* reschedule_overdue: Dict[date, int]
    cursor,          \* reschedule_overdue: date
    oi,              \* reschedule_overdue: index of t in overdue
    minutes_left,    \* reschedule_overdue: int
    attempts,        \* reschedule_overdue: int
    emitted,         \* history: <<id, src, overflow>> of every task reschedule_overdue created
    limit,           \* build_risk_list: the limit argument
    ics,             \* tasks_to_ics: the calendar components and the warnings returned
    files,           \* storage: the files of the data directory, path -> bytes
    loaded,          \* storage: what the last load_json returned or raised
    payload,         \* storage: save_json's payload
    before,          \* history: the target file when the last save began
    load_log,        \* history: the files and the default of the last load_json
    last_call,       \* history: the planner call whose result became state.tasks last
    profile_index,   \* profiles: the list under "profiles" in profiles.json
    state_files,     \* profiles: the names of the files of the data directory
    profiles_made    \* history: the names given to create_profile and save_profile

vars == <<subjects, tasks, events, settings, today, pc, result, uuid, busy_by_day,
          day_capacity, remaining, chunk, new_tasks, di, cap,
          overdue, keep, planned_minutes, cursor, oi, minutes_left, attempts, emitted,
          limit, ics, files, loaded, payload, before, load_log, last_call,
          profile_index, state_files, profiles_made>>

genLocals == <<day_capacity, remaining, chunk, new_tasks, di, cap>>
reschedLocals == <<overdue, keep, planned_minutes, cursor, oi, minutes_left, attempts, emitted>>
inputs == <<subjects, tasks, events, settings, today>>
\* the state of the other components: storage, calendar export, risk list
storeVars == <<files, loaded, payload, before, load_log>>
profVars == <<profile_index, state_files, profiles_made>>
others == <<limit, ics, storeVars, profVars>>
\* what no step of a planner call changes
ext == <<others, last_call>>

(***************************************************************************)
(* Bounds of the model and constants of the program.                       *)
(***************************************************************************)
MaxTasks == 2
FirstDay == 3
MaxSubjects == 2
MaxEvents == 2
MaxIds == 6
MaxDays == 1

horizon_days == 180
window_days == 7
seconds_per_day == 86400

Max(a, b) == IF a >= b THEN a ELSE b
Min(a, b) == IF a <= b THEN a ELSE b

\* dict.get(k, default)
Get(dict, k, default) == IF k \in DOMAIN dict THEN dict[k] ELSE default

\* date.weekday(): 0 = Monday ... 6 = Sunday
weekday(d) == d % 7

\* datetime.combine(d, time.min)
day_start(d) == d * seconds_per_day

(***************************************************************************)
(* compute_busy_minutes_by_day                                             *)
(***************************************************************************)
\* the overlap without the clamp to the end of the day of line 33
overlap_to_event_end(ev, d) ==
    LET overlap_start == Max(ev.start, day_start(d))
    IN  IF ev.end <= ev.start THEN 0
        ELSE IF ev.end > overlap_start /\ ev.start < day_start(d) + seconds_per_day
             THEN (ev.end - overlap_start) \div 60
             ELSE 0

\* minutes one event adds to busy[d]
overlap_minutes(ev, d) ==
    LET overlap_start == Max(ev.start, day_start(d))
        overlap_end == Min(ev.end, day_start(d) + seconds_per_day)
    IN  IF ev.end <= ev.start THEN 0
        ELSE IF overlap_end > overlap_start
             THEN (overlap_end - overlap_start) \div 60
             ELSE 0

RECURSIVE busy_on(_, _)
busy_on(evs, d) ==
    IF evs = <<>> THEN 0
    ELSE overlap_minutes(Head(evs), d) + busy_on(Tail(evs), d)

compute_busy_minutes_by_day(evs, start_date, num_days) ==
    [d \in start_date .. (start_date + num_days - 1) |-> busy_on(evs, d)]

(***************************************************************************)
(* _available_minutes_for_day                                              *)
(***************************************************************************)
\* the capacity without the rest-day test of lines 46-47
available_ignoring_rest_days(d, s, busy_map, planned_map) ==
    Max(0, Max(0, s.minutes_per_day - Get(busy_map, d, 0) - s.daily_buffer_minutes)
             - Get(planned_map, d, 0))

_available_minutes_for_day(d, s, busy_map, planned_map) ==
    IF weekday(d) \in s.rest_days THEN 0
    ELSE LET busy == Get(busy_map, d, 0)
             planned == Get(planned_map, d, 0)
             base == Max(0, s.minutes_per_day - busy - s.daily_buffer_minutes)
         IN  Max(0, base - planned)

(***************************************************************************)
(* Strings as character codes: str.lower() and the order of str.           *)
(***************************************************************************)
lower_char(c) == IF c >= 65 /\ c <= 90 THEN c + 32 ELSE c
lower(s) == [i \in 1 .. Len(s) |-> lower_char(s[i])]

RECURSIVE str_le(_, _)
str_le(a, b) ==
    IF a = <<>> THEN TRUE
    ELSE IF b = <<>> THEN FALSE
    ELSE IF Head(a) < Head(b) THEN TRUE
    ELSE IF Head(a) > Head(b) THEN FALSE
    ELSE str_le(Tail(a), Tail(b))

(***************************************************************************)
(* reschedule_overdue                                                      *)
(***************************************************************************)
\* the partition without the test of t.done
is_past(t, now) == t.day < now

is_overdue(t, now) == (~t.done) /\ t.day < now

\* planned_minutes after the loop over keep (lines 136-139)
RECURSIVE planned_of(_, _)
planned_of(ts, acc) ==
    IF ts = <<>> THEN acc
    ELSE LET t == Head(ts)
             acc2 == IF ~t.done
                     THEN [d \in DOMAIN acc \cup {t.day} |->
                             IF d = t.day THEN Get(acc, t.day, 0) + t.minutes ELSE acc[d]]
                     ELSE acc
         IN  planned_of(Tail(ts), acc2)

empty_dict == [d \in {} |-> 0]

overflow_note == " (overflow, please reschedule)"

\* the piece created at lines 153-161
piece_task(t, id, day, take) ==
    [id |-> id, subject_id |-> t.subject_id, subject_name |-> t.subject_name,
     day |-> day, minutes |-> take, done |-> FALSE, notes |-> t.notes]

\* the overflow task with the minutes of the whole task
overflow_task_whole(t, id, cur, now, left) ==
    [id |-> id, subject_id |-> t.subject_id, subject_name |-> t.subject_name,
     day |-> IF cur >= now THEN cur ELSE now, minutes |-> t.minutes, done |-> FALSE,
     notes |-> (IF t.notes = "" THEN "" ELSE t.notes) \o overflow_note]

\* the overflow task created at lines 170-179
overflow_task(t, id, cur, now, left) ==
    [id |-> id, subject_id |-> t.subject_id, subject_name |-> t.subject_name,
     day |-> IF cur >= now THEN cur ELSE now, minutes |-> left, done |-> FALSE,
     notes |-> (IF t.notes = "" THEN "" ELSE t.notes) \o overflow_note]

\* sort key of line 181 compared: (day, subject_name.lower())
key_le(a, b) ==
    \/ a.day < b.day
    \/ a.day = b.day /\ str_le(lower(a.subject_name), lower(b.subject_name))

\* an insertion that puts x before the elements whose key equals its own
RECURSIVE insert_before_equals(_, _)
insert_before_equals(sorted, x) ==
    IF sorted = <<>> THEN <<x>>
    ELSE IF key_le(x, Head(sorted))
         THEN <<x>> \o sorted
         ELSE <<Head(sorted)>> \o insert_before_equals(Tail(sorted), x)

\* stable insertion: x goes after every element whose key is <= its own
RECURSIVE insert_sorted(_, _)
insert_sorted(sorted, x) ==
    IF sorted = <<>> THEN <<x>>
    ELSE IF key_le(Head(sorted), x)
         THEN <<Head(sorted)>> \o insert_sorted(Tail(sorted), x)
         ELSE <<x>> \o sorted

\* list.sort(key=...): stable
RECURSIVE sort_from(_, _)
sort_from(sorted, rest) ==
    IF rest = <<>> THEN sorted
    ELSE sort_from(insert_sorted(sorted, Head(rest)), Tail(rest))

sort_tasks(ts) == sort_from(<<>>, ts)

\* take without the min of line 152
take_whole_capacity(left, c) == c

take_minutes(left, c) == Min(left, c)

loop_continues(left, att) == left > 0 /\ att < horizon_days

ReschedStart ==
    /\ pc = "idle"
    /\ overdue' = SelectSeq(tasks, LAMBDA t : is_overdue(t, today))
    /\ keep' = SelectSeq(tasks, LAMBDA t : ~is_overdue(t, today))
    /\ busy_by_day' = compute_busy_minutes_by_day(events, today, horizon_days)
    /\ planned_minutes' = planned_of(keep', empty_dict)
    /\ cursor' = today
    /\ oi' = 1
    /\ pc' = "r_for"
    /\ UNCHANGED <<inputs, ext, result, uuid, genLocals, minutes_left, attempts, emitted>>

\* the start of a task's placement with the cursor set back to today
ReschedNextTask_resets_cursor ==
    /\ pc = "r_for"
    /\ oi <= Len(overdue)
    /\ minutes_left' = overdue[oi].minutes
    /\ attempts' = 0
    /\ cursor' = today
    /\ pc' = "r_while"
    /\ UNCHANGED <<inputs, ext, result, uuid, busy_by_day, genLocals,
                   overdue, keep, planned_minutes, oi, emitted>>

ReschedNextTask ==
    /\ pc = "r_for"
    /\ oi <= Len(overdue)
    /\ minutes_left' = overdue[oi].minutes
    /\ attempts' = 0
    /\ pc' = "r_while"
    /\ UNCHANGED <<inputs, ext, result, uuid, busy_by_day, genLocals,
                   overdue, keep, planned_minutes, cursor, oi, emitted>>

ReschedSkipDay ==
    /\ pc = "r_while"
    /\ loop_continues(minutes_left, attempts)
    /\ _available_minutes_for_day(cursor, settings, busy_by_day, planned_minutes) <= 0
    /\ cursor' = cursor + 1
    /\ attempts' = attempts + 1
    /\ UNCHANGED <<inputs, ext, pc, result, uuid, busy_by_day, genLocals,
                   overdue, keep, planned_minutes, oi, minutes_left, emitted>>

ReschedPlace ==
    /\ pc = "r_while"
    /\ loop_continues(minutes_left, attempts)
    /\ LET c == _available_minutes_for_day(cursor, settings, busy_by_day, planned_minutes)
           take == take_minutes(minutes_left, c)
           t == overdue[oi]
       IN  /\ c > 0
           /\ keep' = Append(keep, piece_task(t, uuid, cursor, take))
           /\ emitted' = Append(emitted, [id |-> uuid, src |-> t.id, overflow |-> FALSE])
           /\ planned_minutes' =
                [d \in DOMAIN planned_minutes \cup {cursor} |->
                    IF d = cursor THEN Get(planned_minutes, cursor, 0) + take
                    ELSE planned_minutes[d]]
           /\ minutes_left' = minutes_left - take
           /\ cursor' = IF c - take <= 0 THEN cursor + 1 ELSE cursor
    /\ uuid' = uuid + 1
    /\ attempts' = attempts + 1
    /\ UNCHANGED <<inputs, ext, pc, result, busy_by_day, genLocals, overdue, oi>>

ReschedEndTask ==
    /\ pc = "r_while"
    /\ ~loop_continues(minutes_left, attempts)
    /\ IF minutes_left > 0
       THEN /\ keep' = Append(keep, overflow_task(overdue[oi], uuid, cursor, today, minutes_left))
            /\ emitted' = Append(emitted, [id |-> uuid, src |-> overdue[oi].id, overflow |-> TRUE])
            /\ uuid' = uuid + 1
       ELSE UNCHANGED <<keep, emitted, uuid>>
    /\ oi' = oi + 1
    /\ pc' = "r_for"
    /\ UNCHANGED <<inputs, ext, result, busy_by_day, genLocals,
                   overdue, planned_minutes, cursor, minutes_left, attempts>>

ReschedReturn ==
    /\ pc = "r_for"
    /\ oi > Len(overdue)
    /\ keep' = sort_tasks(keep)
    /\ result' = keep'
    /\ pc' = "r_done"
    /\ UNCHANGED <<inputs, ext, uuid, busy_by_day, genLocals,
                   overdue, planned_minutes, cursor, oi, minutes_left, attempts, emitted>>

(***************************************************************************)
(* generate_week_plan                                                      *)
(***************************************************************************)
\* days = [today + timedelta(days=i) for i in range(7)]
days_of(now) == [i \in 1 .. window_days |-> now + (i - 1)]

\* the days to the deadline without the lower bound of 1
days_left_unclamped(now, deadline) == deadline - now

\* _days_left
_days_left(now, deadline) == Max(1, deadline - now)

\* _priority, the float (difficulty * 10.0) / days_left as the fraction <<num, den>>
_priority(now, s) == <<s.difficulty * 10, _days_left(now, s.deadline)>>

\* p >= q for fractions with positive denominators
prio_ge(p, q) == p[1] * q[2] >= q[1] * p[2]

\* round() of the fraction num / den, den > 0: to nearest, ties to even
round_half_even(num, den) ==
    LET q == num \div den
        r == num % den
    IN  IF 2 * r < den THEN q
        ELSE IF 2 * r > den THEN q + 1
        ELSE IF q % 2 = 0 THEN q ELSE q + 1

\* int(round(s.est_hours * 60)), est_hours the fraction <<num, den>>
target_minutes(s) == round_half_even(s.est_hours[1] * 60, s.est_hours[2])

\* day_capacity after the loop of lines 65-72
base_capacity(now, s, busy_map) ==
    [d \in {days_of(now)[i] : i \in 1 .. window_days} |->
        LET base == IF weekday(d) \in s.rest_days THEN 0 ELSE s.minutes_per_day
            busy == Get(busy_map, d, 0)
        IN  Max(0, base - busy - s.daily_buffer_minutes)]

\* line 77 without the subtraction
capacity_not_reduced(c, t) == c

\* line 77 without the max
capacity_not_clamped(c, t) == c - t.minutes

\* what line 77 stores for a task that passes the test of line 76
reduced_capacity(c, t) == Max(0, c - t.minutes)

\* day_capacity after the loop of lines 75-77
RECURSIVE capacity_after(_, _)
capacity_after(dc, ts) ==
    IF ts = <<>> THEN dc
    ELSE LET t == Head(ts)
             dc2 == IF (~t.done) /\ t.day \in DOMAIN dc
                    THEN [dc EXCEPT ![t.day] = reduced_capacity(dc[t.day], t)]
                    ELSE dc
         IN  capacity_after(dc2, Tail(ts))

RECURSIVE allocated_undone_only(_, _)
\* allocated counting only the tasks that are not done
allocated_undone_only(alloc, ts) ==
    IF ts = <<>> THEN alloc
    ELSE LET t == Head(ts)
             alloc2 == IF t.subject_id \in DOMAIN alloc /\ ~t.done
                       THEN [alloc EXCEPT ![t.subject_id] = alloc[t.subject_id] + t.minutes]
                       ELSE alloc
         IN  allocated_undone_only(alloc2, Tail(ts))

\* allocated after the loop of lines 81-84
RECURSIVE allocated_of(_, _)
allocated_of(alloc, ts) ==
    IF ts = <<>> THEN alloc
    ELSE LET t == Head(ts)
             alloc2 == IF t.subject_id \in DOMAIN alloc
                       THEN [alloc EXCEPT ![t.subject_id] = alloc[t.subject_id] + t.minutes]
                       ELSE alloc
         IN  allocated_of(alloc2, Tail(ts))

\* remaining of lines 80-87
remaining_of(subs, ts) ==
    LET ids == {subs[i].id : i \in 1 .. Len(subs)}
        \* a dict comprehension keeps the last value of a repeated key
        targets == [sid \in ids |->
                      LET last == CHOOSE i \in 1 .. Len(subs) :
                                      /\ subs[i].id = sid
                                      /\ \A j \in 1 .. Len(subs) : subs[j].id = sid => j <= i
                      IN  target_minutes(subs[last])]
        allocated == allocated_of([sid \in ids |-> 0], ts)
    IN  [sid \in ids |-> Max(0, targets[sid] - Get(allocated, sid, 0))]

\* the chunk without the test of line 89
chunk_as_configured(s) == Max(10, s.chunk_minutes)

\* chunk of lines 89-90
chunk_of(s) ==
    LET c == IF s.chunk_minutes \in {25, 45, 60} THEN s.chunk_minutes ELSE 25
    IN  Max(10, c)

\* stable insertion for sort(key=_priority, reverse=True): x goes after every
\* element whose priority is >= its own
RECURSIVE insert_by_priority(_, _, _)
insert_by_priority(now, sorted, x) ==
    IF sorted = <<>> THEN <<x>>
    ELSE IF prio_ge(_priority(now, Head(sorted)), _priority(now, x))
         THEN <<Head(sorted)>> \o insert_by_priority(now, Tail(sorted), x)
         ELSE <<x>> \o sorted

RECURSIVE sort_by_priority(_, _, _)
sort_by_priority(now, sorted, rest) ==
    IF rest = <<>> THEN sorted
    ELSE sort_by_priority(now, insert_by_priority(now, sorted, Head(rest)), Tail(rest))

\* candidates of lines 99 and 103
candidates_of(now, subs, rem) ==
    sort_by_priority(now, <<>>, SelectSeq(subs, LAMBDA s : Get(rem, s.id, 0) > 0))

\* a give that is a whole chunk or nothing
give_chunk_or_nothing(ch, c, rem) == IF Min(c, rem) >= ch THEN ch ELSE 0

\* give of line 105
give_of(ch, c, rem) == Min(ch, Min(c, rem))

\* the task created at lines 109-117
new_task(s, id, d, give) ==
    [id |-> id, subject_id |-> s.id, subject_name |-> s.name,
     day |-> d, minutes |-> give, done |-> FALSE, notes |-> ""]

\* the new tasks put before the existing ones
plan_result_new_first(existing, created) == created \o existing

\* the value returned at line 121
plan_result(existing, created) == existing \o created

GenStart ==
    /\ pc = "idle"
    /\ busy_by_day' = compute_busy_minutes_by_day(events, today, window_days)
    /\ day_capacity' = capacity_after(base_capacity(today, settings, busy_by_day'), tasks)
    /\ remaining' = remaining_of(subjects, tasks)
    /\ chunk' = chunk_of(settings)
    /\ new_tasks' = <<>>
    /\ di' = 1
    /\ pc' = "g_for"
    /\ UNCHANGED <<inputs, ext, result, uuid, cap, reschedLocals>>

\* for d in days: a day without capacity is passed over (lines 93-96)
GenSkipDay ==
    /\ pc = "g_for"
    /\ di <= window_days
    /\ cap' = Get(day_capacity, days_of(today)[di], 0)
    /\ cap' <= 0
    /\ di' = di + 1
    /\ UNCHANGED <<inputs, ext, pc, result, uuid, busy_by_day,
                   day_capacity, remaining, chunk, new_tasks, reschedLocals>>

GenEnterDay ==
    /\ pc = "g_for"
    /\ di <= window_days
    /\ cap' = Get(day_capacity, days_of(today)[di], 0)
    /\ cap' > 0
    /\ pc' = "g_while"
    /\ UNCHANGED <<inputs, ext, result, uuid, busy_by_day,
                   day_capacity, remaining, chunk, new_tasks, di, reschedLocals>>

\* whether the while loop of lines 98-119 creates one more task
allocates(now, subs, rem, ch, c) ==
    /\ c >= 10
    /\ candidates_of(now, subs, rem) # <<>>
    /\ give_of(ch, c, rem[Head(candidates_of(now, subs, rem)).id]) >= 10

GenAllocate ==
    /\ pc = "g_while"
    /\ allocates(today, subjects, remaining, chunk, cap)
    /\ LET s == Head(candidates_of(today, subjects, remaining))
           give == give_of(chunk, cap, remaining[s.id])
       IN  /\ new_tasks' = Append(new_tasks, new_task(s, uuid, days_of(today)[di], give))
           /\ remaining' = [remaining EXCEPT ![s.id] = remaining[s.id] - give]
           /\ cap' = cap - give
    /\ uuid' = uuid + 1
    /\ UNCHANGED <<inputs, ext, pc, result, busy_by_day, day_capacity, chunk, di, reschedLocals>>

GenEndDay ==
    /\ pc = "g_while"
    /\ ~allocates(today, subjects, remaining, chunk, cap)
    /\ di' = di + 1
    /\ pc' = "g_for"
    /\ UNCHANGED <<inputs, ext, result, uuid, busy_by_day,
                   day_capacity, remaining, chunk, new_tasks, cap, reschedLocals>>

GenReturn ==
    /\ pc = "g_for"
    /\ di > window_days
    /\ result' = plan_result(tasks, new_tasks)
    /\ pc' = "g_done"
    /\ UNCHANGED <<inputs, ext, uuid, busy_by_day, genLocals, reschedLocals>>

(***************************************************************************)
(* Inputs.                                                                 *)
(***************************************************************************)
name_Math == <<77, 97, 116, 104>>
name_art == <<97, 114, 116>>
name_Bio == <<66, 105, 111>>

\* Task fields other than id; minutes > 0 (models.py Field(gt=0))
TaskChoices ==
    { [subject_id |-> "s1", subject_name |-> name_Math, day |-> FirstDay - 2,
       minutes |-> 40, done |-> FALSE, notes |-> ""],
      [subject_id |-> "s2", subject_name |-> name_art, day |-> FirstDay - 1,
       minutes |-> 5, done |-> FALSE, notes |-> "ch. 2"],
      [subject_id |-> "s1", subject_name |-> name_Math, day |-> FirstDay - 1,
       minutes |-> 30, done |-> TRUE, notes |-> ""],
      [subject_id |-> "s3", subject_name |-> name_Bio, day |-> FirstDay,
       minutes |-> 20, done |-> FALSE, notes |-> ""],
      [subject_id |-> "s2", subject_name |-> name_art, day |-> FirstDay + 1,
       minutes |-> 60, done |-> FALSE, notes |-> ""] }

with_id(t, i) ==
    [id |-> i, subject_id |-> t.subject_id, subject_name |-> t.subject_name,
     day |-> t.day, minutes |-> t.minutes, done |-> t.done, notes |-> t.notes]

TaskLists ==
    UNION { { [i \in 1 .. n |-> with_id(f[i], i)] : f \in [1 .. n -> TaskChoices] }
            : n \in 0 .. MaxTasks }

\* minutes_per_day 15..600, daily_buffer_minutes 0..180 (models.py)
SettingsChoices ==
    { [minutes_per_day |-> m, rest_days |-> r, chunk_minutes |-> 25,
       daily_buffer_minutes |-> b, preferred_start_hour |-> 18, preferred_end_hour |-> 22]
      : m \in {15, 60}, b \in {0, 20}, r \in {{}, {weekday(FirstDay)}, 0 .. 6} }

ev_long == [id |-> "e1", title |-> "camp",
            start |-> day_start(FirstDay + 1), end |-> day_start(FirstDay + horizon_days + 1)]
ev_short == [id |-> "e2", title |-> "class",
             start |-> day_start(FirstDay) + 36000, end |-> day_start(FirstDay) + 37500]
ev_night == [id |-> "e3", title |-> "trip",
             start |-> day_start(FirstDay) + 82830, end |-> day_start(FirstDay + 1) + 3630]

EventLists == { <<>>, <<ev_long>>, <<ev_short, ev_night>> }

\* the other components before any call
RiskInit ==
    /\ limit = 5

IcsInit ==
    /\ ics = [cal |-> <<>>, warnings |-> <<>>]

\* an empty data directory
StoreInit ==
    /\ files = empty_dict
    /\ loaded = <<>>
    /\ payload = <<>>
    /\ before = <<>>
    /\ load_log = <<>>

\* no profiles.json and no state file in the data directory
ProfilesInit ==
    /\ profile_index = <<>>
    /\ state_files = {}
    /\ profiles_made = {}

ExtInit ==
    /\ RiskInit
    /\ IcsInit
    /\ StoreInit
    /\ ProfilesInit

\* no result was assigned to state.tasks yet
no_call == [op |-> "none", today |-> 0]

PlannerInit ==
    /\ pc = "idle"
    /\ result = <<>>
    /\ busy_by_day = empty_dict
    /\ day_capacity = empty_dict
    /\ remaining = empty_dict
    /\ chunk = 0
    /\ new_tasks = <<>>
    /\ di = 0
    /\ cap = 0
    /\ overdue = <<>>
    /\ keep = <<>>
    /\ planned_minutes = empty_dict
    /\ cursor = 0
    /\ oi = 0
    /\ minutes_left = 0
    /\ attempts = 0
    /\ emitted = <<>>
    /\ last_call = no_call

LocalsInit ==
    /\ PlannerInit
    /\ ExtInit

InitResched ==
    /\ subjects = <<>>
    /\ tasks \in TaskLists
    /\ events \in EventLists
    /\ settings \in SettingsChoices
    /\ today = FirstDay
    /\ uuid = Len(tasks) + 1
    /\ LocalsInit

NextResched ==
    \/ ReschedStart
    \/ ReschedNextTask
    \/ ReschedSkipDay
    \/ ReschedPlace
    \/ ReschedEndTask
    \/ ReschedReturn

SpecResched == InitResched /\ [][NextResched]_vars

\* difficulty 1..5, est_hours > 0 as a fraction (models.py)
SubjectChoices ==
    { [id |-> "s1", name |-> name_Math, deadline |-> FirstDay + 1, difficulty |-> 5,
       est_hours |-> <<1, 1>>, notes |-> ""],
      [id |-> "s2", name |-> name_art, deadline |-> FirstDay - 1, difficulty |-> 2,
       est_hours |-> <<1, 2>>, notes |-> ""],
      [id |-> "s3", name |-> name_Bio, deadline |-> FirstDay, difficulty |-> 5,
       est_hours |-> <<7, 120>>, notes |-> ""] }

\* lists of subjects with distinct ids
SubjectLists ==
    UNION { { f \in [1 .. n -> SubjectChoices] :
                \A i, j \in 1 .. n : i # j => f[i].id # f[j].id }
            : n \in 0 .. MaxSubjects }

GenSettingsChoices ==
    { [minutes_per_day |-> m, rest_days |-> r, chunk_minutes |-> c,
       daily_buffer_minutes |-> b, preferred_start_hour |-> 18, preferred_end_hour |-> 22]
      : m \in {15, 60}, b \in {0, 20}, r \in {{}, {weekday(FirstDay)}}, c \in {25, 60, 30} }

InitGen ==
    /\ subjects \in SubjectLists
    /\ tasks \in TaskLists
    /\ events \in EventLists
    /\ settings \in GenSettingsChoices
    /\ today = FirstDay
    /\ uuid = Len(tasks) + 1
    /\ LocalsInit

NextGen ==
    \/ GenStart
    \/ GenSkipDay
    \/ GenEnterDay
    \/ GenAllocate
    \/ GenEndDay
    \/ GenReturn

SpecGen == InitGen /\ [][NextGen]_vars

(***************************************************************************)
(* Properties of reschedule_overdue, checked under SpecResched.            *)
(***************************************************************************)
RECURSIVE sum_at(_, _)
sum_at(f, S) ==
    IF S = {} THEN 0
    ELSE LET x == CHOOSE y \in S : TRUE
         IN  f[x] + sum_at(f, S \ {x})

\* total minutes of the tasks of ts at the positions in S
minutes_at(ts, S) == sum_at([i \in 1 .. Len(ts) |-> ts[i].minutes], S)

\* ids of the tasks created for the overdue task with id src
emitted_for(src) == {emitted[k].id : k \in {n \in 1 .. Len(emitted) : emitted[n].src = src}}
overflow_ids == {emitted[k].id : k \in {n \in 1 .. Len(emitted) : emitted[n].overflow}}
piece_ids == {emitted[k].id : k \in {n \in 1 .. Len(emitted) : ~emitted[n].overflow}}

\* the overdue tasks of the input, by the words of the spec
overdue_input == {i \in 1 .. Len(tasks) : (~tasks[i].done) /\ tasks[i].day < today}

\* C1: when reschedule_overdue returns, the minutes of the tasks emitted for an
\* overdue task (pieces plus overflow) sum to the minutes of that task.
C1_ConservesMinutes ==
    pc = "r_done" =>
        \A i \in overdue_input :
            minutes_at(result, {j \in 1 .. Len(result) : result[j].id \in emitted_for(tasks[i].id)})
                = tasks[i].minutes

\* an overdue task was split into at least one piece and an overflow task
C1_Witness ==
    /\ pc = "r_done"
    /\ \E i \in overdue_input :
          /\ emitted_for(tasks[i].id) \cap overflow_ids # {}
          /\ emitted_for(tasks[i].id) \cap piece_ids # {}

\* undone minutes of ts on day d, leaving out the tasks whose id is in skip
undone_minutes_on(ts, d, skip) ==
    minutes_at(ts, {j \in 1 .. Len(ts) : (~ts[j].done) /\ ts[j].day = d /\ ts[j].id \notin skip})

\* capacity of day d by the words of C4: the events are those overlapping d, the
\* undone tasks are the kept tasks and the pieces placed so far
available_capacity(d) ==
    IF weekday(d) \in settings.rest_days THEN 0
    ELSE Max(0, settings.minutes_per_day - busy_on(events, d)
                  - settings.daily_buffer_minutes - undone_minutes_on(keep, d, overflow_ids))

\* a step of the placement loop that appends an ordinary piece
places_piece == pc = "r_while" /\ pc' = "r_while" /\ Len(keep') = Len(keep) + 1

\* C4: a non-overflow task emitted by reschedule_overdue is no longer than the
\* available capacity of its day at the moment it is created, wherever the cursor
\* is and wherever the events lie.
C4_PieceWithinCapacity ==
    [][places_piece => keep'[Len(keep')].minutes <= available_capacity(cursor)]_vars

\* the step that ends the placement loop of overdue[oi]
ends_loop == pc = "r_while" /\ pc' = "r_for"

\* C5: when the placement loop of an overdue task ends with minutes unplaced,
\* one overflow task is emitted for it: undone, with the unplaced minutes, on the
\* cursor date (never before today), its notes the original notes followed by the
\* annotation; when nothing is left no task is emitted; no other step emits an
\* overflow task.
C5_OverflowKeepsRemainder ==
    [][ /\ ends_loop /\ minutes_left > 0 =>
            /\ Len(keep') = Len(keep) + 1
            /\ SubSeq(keep', 1, Len(keep)) = keep
            /\ LET o == keep'[Len(keep')]
                   t == overdue[oi]
               IN  /\ o.minutes = minutes_left
                   /\ o.day = cursor
                   /\ cursor >= today
                   /\ ~o.done
                   /\ o.notes = t.notes \o " (overflow, please reschedule)"
                   /\ o.subject_id = t.subject_id
                   /\ o.subject_name = t.subject_name
                   /\ o.id \notin {keep[j].id : j \in 1 .. Len(keep)}
                   /\ emitted' = Append(emitted, [id |-> o.id, src |-> t.id, overflow |-> TRUE])
                   /\ emitted_for(t.id) \cap overflow_ids = {}
        /\ ends_loop /\ minutes_left <= 0 => keep' = keep /\ emitted' = emitted
        /\ ~ends_loop =>
              \A k \in 1 .. Len(emitted') : emitted'[k].overflow => k <= Len(emitted)
      ]_vars

\* an overflow task was emitted, after a piece of the same task, for a task with notes
C5_Witness ==
    /\ pc = "r_done"
    /\ \E i \in overdue_input :
          /\ tasks[i].notes # ""
          /\ emitted_for(tasks[i].id) \cap overflow_ids # {}
    /\ \E i \in overdue_input : emitted_for(tasks[i].id) \cap overflow_ids = {}

\* C6: no non-overflow task emitted by reschedule_overdue lies on a day at or
\* after today + 180.
C6_PiecesInsideHorizon ==
    \A j \in 1 .. Len(keep) :
        keep[j].id \in piece_ids => keep[j].day < today + 180

\* capacity of today when the call starts, by the words of the spec
today_capacity ==
    IF weekday(today) \in settings.rest_days THEN 0
    ELSE Max(0, settings.minutes_per_day - busy_on(events, today)
                  - settings.daily_buffer_minutes
                  - minutes_at(tasks, {j \in 1 .. Len(tasks) :
                        (~tasks[j].done) /\ tasks[j].day = today}))

\* C7: the returned list holds no undone task before today, every emitted task is
\* on a day >= today, and no ordinary piece is on today when today has no capacity.
C7_NothingBeforeToday ==
    pc = "r_done" =>
        /\ \A j \in 1 .. Len(result) : ~result[j].done => result[j].day >= today
        /\ \A j \in 1 .. Len(result) :
              result[j].id \in piece_ids \cup overflow_ids => result[j].day >= today
        /\ today_capacity = 0 =>
              \A j \in 1 .. Len(result) : result[j].id \in piece_ids => result[j].day # today

\* the example of the spec: today is a rest day, and the 40 overdue minutes are
\* placed tomorrow
C7_Witness ==
    /\ pc = "r_done"
    /\ weekday(today) \in settings.rest_days
    /\ today_capacity = 0
    /\ \E j \in 1 .. Len(result) :
          /\ result[j].id \in piece_ids
          /\ result[j].day = today + 1
          /\ result[j].minutes = 40

input_ids == {tasks[i].id : i \in 1 .. Len(tasks)}

\* C9: a task that is done or on a day >= today is in the output once, every field
\* unchanged; an undone task before today is absent from the output; every other
\* task of the output was created by the call.
C9_PartitionsInput ==
    pc = "r_done" =>
        /\ \A i \in (1 .. Len(tasks)) \ overdue_input :
              Cardinality({j \in 1 .. Len(result) : result[j] = tasks[i]}) = 1
        /\ \A i \in (1 .. Len(tasks)) \ overdue_input :
              Cardinality({j \in 1 .. Len(result) : result[j].id = tasks[i].id}) = 1
        /\ \A i \in overdue_input :
              \A j \in 1 .. Len(result) : result[j].id # tasks[i].id
        /\ \A j \in 1 .. Len(result) :
              result[j].id \notin input_ids => result[j].id \in piece_ids \cup overflow_ids
        /\ Len(result) = Len(tasks) - Cardinality(overdue_input) + Len(emitted)

\* a done task of the past is kept while an overdue one is replaced
C9_Witness ==
    /\ pc = "r_done"
    /\ \E i \in 1 .. Len(tasks) : tasks[i].done /\ tasks[i].day < today
    /\ overdue_input # {}
    /\ Len(emitted) > 0

(***************************************************************************)
(* Properties of generate_week_plan, checked under SpecGen.                *)
(***************************************************************************)
\* the days a task of the model can lie on
claim_days == (today - 3) .. (today + 8)

\* capacity of day d by the words of C2
plan_capacity(d) ==
    IF d < today \/ d > today + 6 \/ weekday(d) \in settings.rest_days THEN 0
    ELSE Max(0, settings.minutes_per_day - busy_on(events, d)
                  - settings.daily_buffer_minutes - undone_minutes_on(tasks, d, {}))

\* the tasks of the returned list after the existing ones
created_tasks == SubSeq(result, Len(tasks) + 1, Len(result))

\* C2: on every day the minutes of the new tasks sum to at most the capacity of
\* the day, while the plan is built and in the returned list.
C2_NeverOverbooks ==
    /\ \A d \in claim_days :
          minutes_at(new_tasks, {j \in 1 .. Len(new_tasks) : new_tasks[j].day = d})
              <= plan_capacity(d)
    /\ \A j \in 1 .. Len(new_tasks) : new_tasks[j].day \in claim_days
    /\ pc = "g_done" =>
          \A d \in claim_days :
              minutes_at(created_tasks, {j \in 1 .. Len(created_tasks) : created_tasks[j].day = d})
                  <= plan_capacity(d)

\* a day that holds an existing undone task is filled to its capacity by two or
\* more new tasks
C2_Witness ==
    /\ pc = "g_done"
    /\ \E d \in claim_days :
          /\ undone_minutes_on(tasks, d, {}) > 0
          /\ plan_capacity(d) > 0
          /\ Cardinality({j \in 1 .. Len(created_tasks) : created_tasks[j].day = d}) >= 2
          /\ minutes_at(created_tasks, {j \in 1 .. Len(created_tasks) : created_tasks[j].day = d})
                = plan_capacity(d)

\* the chunk by the words of C3
claim_chunk == IF settings.chunk_minutes \in {25, 45, 60} THEN settings.chunk_minutes ELSE 25

\* C3: every task generate_week_plan creates has between 10 and chunk minutes.
C3_NewTaskMinutes ==
    /\ \A j \in 1 .. Len(new_tasks) :
          new_tasks[j].minutes >= 10 /\ new_tasks[j].minutes <= claim_chunk
    /\ pc = "g_done" =>
          \A j \in 1 .. Len(created_tasks) :
              created_tasks[j].minutes >= 10 /\ created_tasks[j].minutes <= claim_chunk

\* with a chunk setting outside 25, 45, 60 the plan holds a new task of 25
\* minutes, one of 10 minutes, and an existing task shorter than 10 minutes
C3_Witness ==
    /\ pc = "g_done"
    /\ settings.chunk_minutes \notin {25, 45, 60}
    /\ \E j \in 1 .. Len(created_tasks) : created_tasks[j].minutes = 25
    /\ \E j \in 1 .. Len(created_tasks) : created_tasks[j].minutes = 10
    /\ \E j \in 1 .. Len(tasks) : result[j].minutes < 10

\* C8: no step of generate_week_plan changes the list passed in, and the list
\* returned is that list, unchanged, followed by the newly created tasks.
C8_ExistingTasksArePrefix ==
    [][ /\ tasks' = tasks
        /\ pc' = "g_done" =>
              /\ Len(result') = Len(tasks) + Len(new_tasks)
              /\ \A i \in 1 .. Len(tasks) : result'[i] = tasks[i]
              /\ \A j \in 1 .. Len(new_tasks) :
                    /\ result'[Len(tasks) + j] = new_tasks[j]
                    /\ new_tasks[j].id \notin {tasks[i].id : i \in 1 .. Len(tasks)}
      ]_vars

\* a list with two existing tasks was returned with new tasks after them
C8_Witness ==
    /\ pc = "g_done"
    /\ Len(tasks) >= 2
    /\ Len(result) > Len(tasks)
    /\ tasks[1] # tasks[2]

\* the available minutes of day d by the formula of C10
capacity_formula(d, planned) ==
    IF weekday(d) \in settings.rest_days THEN 0
    ELSE Max(0, Max(0, settings.minutes_per_day - Get(busy_by_day, d, 0)
                         - settings.daily_buffer_minutes) - planned)

\* C10: the capacity generate_week_plan computes for each day of the window is
\* never negative, is the value of the formula, and is what
\* _available_minutes_for_day gives for the undone existing tasks of the day.
C10_CapacityModel ==
    pc \in {"g_for", "g_while", "g_done"} =>
        /\ DOMAIN day_capacity = today .. (today + 6)
        /\ \A d \in DOMAIN day_capacity :
              LET planned == undone_minutes_on(tasks, d, {})
              IN  /\ day_capacity[d] >= 0
                  /\ day_capacity[d] = capacity_formula(d, planned)
                  /\ day_capacity[d] =
                        _available_minutes_for_day(d, settings, busy_by_day, d :> planned)

\* a day of the window is cut to 0 by two existing undone tasks that together are
\* longer than its base capacity, while the subject list is not empty
C10_Witness ==
    /\ pc = "g_for"
    /\ subjects # <<>>
    /\ \E d \in DOMAIN day_capacity :
          /\ day_capacity[d] = 0
          /\ weekday(d) \notin settings.rest_days
          /\ Cardinality({j \in 1 .. Len(tasks) : (~tasks[j].done) /\ tasks[j].day = d}) >= 2
          /\ undone_minutes_on(tasks, d, {})
                > settings.minutes_per_day - Get(busy_by_day, d, 0) - settings.daily_buffer_minutes
          /\ settings.minutes_per_day - Get(busy_by_day, d, 0) - settings.daily_buffer_minutes > 0

(***************************************************************************)
(* compute_busy_minutes_by_day called on its own, checked under SpecBusy.  *)
(***************************************************************************)
\* the call compute_busy_minutes_by_day(events, start_date) with num_days = 7
BusyCall ==
    /\ pc = "idle"
    /\ busy_by_day' = compute_busy_minutes_by_day(events, today, window_days)
    /\ pc' = "b_done"
    /\ UNCHANGED <<inputs, ext, result, uuid, genLocals, reschedLocals>>

\* events inside the window of 7 days from FirstDay: whole-minute and other
\* starts, durations <= 0, within a day, over one midnight, over several
BusyEvents ==
    { [id |-> "e", title |-> "busy", start |-> s, end |-> s + len] :
        s \in {day_start(FirstDay), day_start(FirstDay) + 36000,
               day_start(FirstDay) + 82800, day_start(FirstDay) + 82830,
               day_start(FirstDay + 2) + 82845},
        len \in {0 - 60, 0, 59, 90, 1500, 7200, 86400, 180000} }

BusyEventLists == UNION { [1 .. n -> BusyEvents] : n \in 0 .. MaxEvents }

InitBusy ==
    /\ subjects = <<>>
    /\ tasks = <<>>
    /\ events \in BusyEventLists
    /\ settings \in {s \in SettingsChoices : s.minutes_per_day = 60 /\ s.rest_days = {}}
    /\ today = FirstDay
    /\ uuid = 1
    /\ LocalsInit

NextBusy == BusyCall

SpecBusy == InitBusy /\ [][NextBusy]_vars

\* total_seconds() // 60 of the whole event
duration_minutes(ev) == (ev.end - ev.start) \div 60

\* midnights inside an event with end > start
midnights_in(ev) == ((ev.end - 1) \div seconds_per_day) - (ev.start \div seconds_per_day)

\* positions of the events with end > start
timed_events == {i \in 1 .. Len(events) : events[i].end > events[i].start}

total_busy == sum_at(busy_by_day, DOMAIN busy_by_day)
total_duration == sum_at([i \in 1 .. Len(events) |-> duration_minutes(events[i])], timed_events)
total_midnights == sum_at([i \in 1 .. Len(events) |-> midnights_in(events[i])], timed_events)

\* an event with end > start covers part of day d
overlaps_day(ev, d) ==
    ev.end > ev.start /\ ev.start < day_start(d) + seconds_per_day /\ ev.end > day_start(d)

\* C11 as stated: the busy minutes of the window sum to the durations of the
\* events with end > start, whatever their timestamps.
C11_SumIsDuration ==
    pc = "b_done" => total_busy = total_duration

\* C11 as amended: the busy minutes sum to the durations when every event lies
\* within one day or starts on a whole minute; otherwise they fall short of the
\* durations by at most one minute per midnight inside an event; an event with
\* end <= start adds nothing and a day no event overlaps maps to 0.
C11_BusyAccounts ==
    pc = "b_done" =>
        /\ DOMAIN busy_by_day = today .. (today + 6)
        /\ total_busy <= total_duration
        /\ total_busy >= total_duration - total_midnights
        /\ (\A i \in timed_events : midnights_in(events[i]) = 0 \/ events[i].start % 60 = 0)
              => total_busy = total_duration
        /\ \A d \in DOMAIN busy_by_day :
              (\A i \in 1 .. Len(events) : ~overlaps_day(events[i], d)) => busy_by_day[d] = 0
        /\ \A d \in DOMAIN busy_by_day : busy_by_day[d] >= 0 /\ busy_by_day[d] <= 1440 * Len(events)

\* the example of the spec, 23:00 to 01:00, beside an event with end < start:
\* two day buckets of 60 minutes
C11_Witness ==
    /\ pc = "b_done"
    /\ Len(events) = 2
    /\ events[1].start = day_start(FirstDay) + 82800
    /\ events[1].end = day_start(FirstDay + 1) + 3600
    /\ events[2].end < events[2].start
    /\ busy_by_day[today] = 60
    /\ busy_by_day[today + 1] = 60
    /\ total_busy = 120


(***************************************************************************)
(* build_risk_list.  The score is computed in IEEE-754 double arithmetic,  *)
(* urgency = 1 / days_left and score = (remaining * urgency) * difficulty, *)
(* each operation rounded to nearest, ties to even.  A positive double is  *)
(* [bits, exp]: bits is its 53-bit significand, most significant bit       *)
(* first, and its value is the integer written by bits times 2^exp.        *)
(* The entry's remaining_hours, a display rounding of remaining / 60, is   *)
(* not a component of the model's entries.                                 *)
(***************************************************************************)
mant_bits == 53

zero_float == [bits |-> <<>>, exp |-> 0]

RECURSIVE increment(_)
\* the integer written by bits, plus one
increment(bits) ==
    IF bits = <<>> THEN <<1>>
    ELSE IF bits[Len(bits)] = 0 THEN Append(SubSeq(bits, 1, Len(bits) - 1), 1)
    ELSE Append(increment(SubSeq(bits, 1, Len(bits) - 1)), 0)

\* round to nearest, ties to even: guard is the first bit dropped, sticky
\* tells whether any later dropped bit is set
round_to_double(bits, exp, guard, sticky) ==
    IF guard = 1 /\ (sticky \/ bits[mant_bits] = 1)
    THEN LET up == increment(bits)
         IN  IF Len(up) > mant_bits
             THEN [bits |-> SubSeq(up, 1, mant_bits), exp |-> exp + 1]
             ELSE [bits |-> up, exp |-> exp]
    ELSE [bits |-> bits, exp |-> exp]

RECURSIVE quotient_bits(_, _, _, _)
\* binary long division of r by d from the bit of weight 2^-p on, up to the
\* 53rd significant bit
quotient_bits(r, d, p, acc) ==
    LET bit == IF r >= d THEN 1 ELSE 0
        rem == r - bit * d
    IN  IF acc = <<>> /\ bit = 0 THEN quotient_bits(2 * rem, d, p + 1, acc)
        ELSE IF Len(acc) + 1 = mant_bits
             THEN [bits |-> Append(acc, bit), exp |-> 0 - p, rem |-> rem]
             ELSE quotient_bits(2 * rem, d, p + 1, Append(acc, bit))

\* 1 / d for an int d >= 1
reciprocal(d) ==
    LET q == quotient_bits(1, d, 0, <<>>)
        guard == IF 2 * q.rem >= d THEN 1 ELSE 0
        sticky == 2 * q.rem - guard * d # 0
    IN  round_to_double(q.bits, q.exp, guard, sticky)

RECURSIVE to_bits(_)
to_bits(n) == IF n = 0 THEN <<>> ELSE Append(to_bits(n \div 2), n % 2)

RECURSIVE times_bits(_, _, _, _, _)
\* the integer written by bits, times n, from bit i down to the lowest
times_bits(bits, n, i, carry, acc) ==
    IF i = 0 THEN to_bits(carry) \o acc
    ELSE LET v == bits[i] * n + carry
         IN  IF v % 2 = 0 THEN times_bits(bits, n, i - 1, v \div 2, <<0>> \o acc)
             ELSE times_bits(bits, n, i - 1, v \div 2, <<1>> \o acc)

\* x * n for a double x >= 0 and an int n >= 0 (the int converts exactly)
float_times_int(x, n) ==
    IF x = zero_float \/ n = 0 THEN zero_float
    ELSE LET prod == times_bits(x.bits, n, mant_bits, 0, <<>>)
             extra == Len(prod) - mant_bits
             guard == IF extra > 0 THEN prod[mant_bits + 1] ELSE 0
             sticky == \E i \in mant_bits + 2 .. Len(prod) : prod[i] = 1
         IN  round_to_double(SubSeq(prod, 1, mant_bits), x.exp + extra, guard, sticky)

\* float(n) for an int 0 <= n < 2^53
int_to_float(n) ==
    IF n = 0 THEN zero_float
    ELSE LET b == to_bits(n)
         IN  [bits |-> b \o [i \in 1 .. mant_bits - Len(b) |-> 0], exp |-> Len(b) - mant_bits]

RECURSIVE bits_ge(_, _)
bits_ge(a, b) ==
    IF a = <<>> THEN TRUE
    ELSE IF Head(a) # Head(b) THEN Head(a) > Head(b)
    ELSE bits_ge(Tail(a), Tail(b))

\* x >= y for doubles x, y >= 0
float_ge(x, y) ==
    IF y = zero_float THEN TRUE
    ELSE IF x = zero_float THEN FALSE
    ELSE IF x.exp # y.exp THEN x.exp > y.exp
    ELSE bits_ge(x.bits, y.bits)

RECURSIVE minutes_by_subject(_, _)
\* planned_minutes of lines 193-194: minutes of all tasks, done or not
minutes_by_subject(ts, acc) ==
    IF ts = <<>> THEN acc
    ELSE LET t == Head(ts)
         IN  minutes_by_subject(Tail(ts),
                 [k \in DOMAIN acc \cup {t.subject_id} |->
                     IF k = t.subject_id THEN Get(acc, k, 0) + t.minutes ELSE acc[k]])

\* remaining of line 201
risk_remaining(s, planned) == Max(0, target_minutes(s) - Get(planned, s.id, 0))

\* score of lines 203-204
risk_score(s, planned, now) ==
    float_times_int(float_times_int(reciprocal(_days_left(now, s.deadline)),
                                    risk_remaining(s, planned)),
                    s.difficulty)

\* level of lines 208-213
risk_level(score) ==
    IF float_ge(score, int_to_float(500)) THEN "HIGH"
    ELSE IF float_ge(score, int_to_float(200)) THEN "MED"
    ELSE "LOW"

\* the dict of lines 214-224
risk_entry(s, planned, now) ==
    LET rem == risk_remaining(s, planned)
        days_left == _days_left(now, s.deadline)
        score == risk_score(s, planned, now)
    IN  [subject |-> s.name, deadline |-> s.deadline, days_left |-> days_left,
         remaining_minutes |-> rem,
         suggested_today_minutes |-> round_half_even(rem, Max(1, days_left)),
         difficulty |-> s.difficulty, score |-> score, level |-> risk_level(score)]

RECURSIVE risks_of(_, _, _)
\* risks after the loop of lines 199-224
risks_of(subs, planned, now) ==
    IF subs = <<>> THEN <<>>
    ELSE LET s == Head(subs)
             rest == risks_of(Tail(subs), planned, now)
         IN  IF float_ge(zero_float, risk_score(s, planned, now)) THEN rest
             ELSE <<risk_entry(s, planned, now)>> \o rest

RECURSIVE insert_by_score(_, _)
\* stable, descending: after every entry whose score is >= the new one's
insert_by_score(sorted, r) ==
    IF sorted = <<>> THEN <<r>>
    ELSE IF float_ge(Head(sorted).score, r.score)
         THEN <<Head(sorted)>> \o insert_by_score(Tail(sorted), r)
         ELSE <<r>> \o sorted

RECURSIVE sort_by_score(_)
\* risks.sort(key=score, reverse=True), line 226
sort_by_score(rs) ==
    IF rs = <<>> THEN <<>>
    ELSE insert_by_score(sort_by_score(SubSeq(rs, 1, Len(rs) - 1)), rs[Len(rs)])

\* the list without the slice of line 227
untruncated(rs, n) == rs

\* rs[:n], line 227
truncated(rs, n) ==
    IF n >= 0 THEN SubSeq(rs, 1, Min(n, Len(rs)))
    ELSE SubSeq(rs, 1, Max(0, Len(rs) + n))

build_risk_list(subs, ts, now, n) ==
    truncated(sort_by_score(risks_of(subs, minutes_by_subject(ts, empty_dict), now)), n)

BuildRiskList ==
    /\ pc = "idle"
    /\ result' = build_risk_list(subjects, tasks, today, limit)
    /\ pc' = "k_done"
    /\ UNCHANGED <<inputs, ext, uuid, busy_by_day, genLocals, reschedLocals>>

\* difficulty 1..5, est_hours > 0 (models.py)
RiskSubjectChoices ==
    SubjectChoices \cup
    { [id |-> "s1", name |-> name_Math, deadline |-> FirstDay + 3, difficulty |-> 3,
       est_hours |-> <<4, 1>>, notes |-> ""],
      [id |-> "s2", name |-> name_art, deadline |-> FirstDay, difficulty |-> 5,
       est_hours |-> <<5, 3>>, notes |-> ""],
      [id |-> "s3", name |-> name_Bio, deadline |-> FirstDay + 1, difficulty |-> 5,
       est_hours |-> <<1, 1>>, notes |-> ""] }

RiskSubjectLists ==
    UNION { { f \in [1 .. n -> RiskSubjectChoices] :
                \A i, j \in 1 .. n : i # j => f[i].id # f[j].id }
            : n \in 0 .. MaxSubjects }

RiskLimits == {1, 2, 5}

InitRisk ==
    /\ subjects \in RiskSubjectLists
    /\ tasks \in TaskLists
    /\ events = <<>>
    /\ settings \in {s \in SettingsChoices : s.minutes_per_day = 60 /\ s.rest_days = {}
                                             /\ s.daily_buffer_minutes = 0}
    /\ today = FirstDay
    /\ uuid = Len(tasks) + 1
    /\ PlannerInit
    /\ limit \in RiskLimits
    /\ IcsInit
    /\ StoreInit
    /\ ProfilesInit

NextRisk == BuildRiskList

SpecRisk == InitRisk /\ [][NextRisk]_vars

\* ---- claims about build_risk_list ----
\* indices of the subjects with remaining minutes > 0
risk_candidates ==
    { i \in 1 .. Len(subjects) :
        risk_remaining(subjects[i], minutes_by_subject(tasks, empty_dict)) > 0 }

\* C12: build_risk_list returns the highest-scoring entries: no entry has 0
\* remaining minutes, the entries are those of min(limit, number of subjects
\* with remaining minutes > 0) distinct such subjects, in non-increasing
\* score order, and no omitted candidate scores higher than a returned entry.
C12_TopRisks ==
    pc = "k_done" =>
        LET planned == minutes_by_subject(tasks, empty_dict)
            n == Len(result)
        IN  /\ n = Min(limit, Cardinality(risk_candidates))
            /\ \A i \in 1 .. n : result[i].remaining_minutes > 0
            /\ \A i, j \in 1 .. n : i < j => float_ge(result[i].score, result[j].score)
            /\ \E f \in [1 .. n -> risk_candidates] :
                  /\ \A i, j \in 1 .. n : i # j => f[i] # f[j]
                  /\ \A i \in 1 .. n : result[i] = risk_entry(subjects[f[i]], planned, today)
                  /\ \A k \in risk_candidates \ {f[i] : i \in 1 .. n} :
                        \A i \in 1 .. n :
                            float_ge(result[i].score, risk_score(subjects[k], planned, today))

\* two candidates and limit 1: the later subject scores higher and is the
\* one returned, the other is omitted
C12_Witness ==
    /\ pc = "k_done"
    /\ limit = 1
    /\ Cardinality(risk_candidates) = 2
    /\ Len(result) = 1
    /\ result[1].subject = subjects[2].name
    /\ result[1].score # risk_score(subjects[1], minutes_by_subject(tasks, empty_dict), today)

\* the level the thresholds give to the exact score
\* remaining_minutes * difficulty / days_left
exact_level(r) ==
    LET num == r.remaining_minutes * r.difficulty
    IN  IF num >= 500 * r.days_left THEN "HIGH"
        ELSE IF num >= 200 * r.days_left THEN "MED"
        ELSE "LOW"

\* C16: every entry has days_left = max(1, deadline - today) and the level
\* of its score remaining_minutes * difficulty / days_left: HIGH from 500,
\* MED from 200 to below 500, LOW otherwise.
C16_LevelOfExactScore ==
    pc = "k_done" =>
        \A i \in 1 .. Len(result) :
            /\ result[i].days_left = Max(1, result[i].deadline - today)
            /\ result[i].level = exact_level(result[i])

(***************************************************************************)
(* Further properties of generate_week_plan, checked under SpecGen.        *)
(***************************************************************************)
\* remaining minutes of the subject with id sid when the call has returned:
\* the target minus all its tasks, new ones included
final_remaining ==
    [sid \in {subjects[i].id : i \in 1 .. Len(subjects)} |->
        LET s == subjects[CHOOSE i \in 1 .. Len(subjects) : subjects[i].id = sid]
        IN  Max(0, target_minutes(s)
                     - minutes_at(result, {j \in 1 .. Len(result) : result[j].subject_id = sid}))]

\* window days with 10 or more minutes of unallocated capacity in the returned plan
open_days ==
    { d \in claim_days :
        plan_capacity(d)
          - minutes_at(created_tasks, {j \in 1 .. Len(created_tasks) : created_tasks[j].day = d})
          >= 10 }

\* C13 as stated: when the call returns every subject has 0 remaining
\* minutes or no window day has 10 or more minutes of unallocated capacity.
C13_ExhaustedOrFull ==
    pc = "g_done" =>
        \/ \A sid \in DOMAIN final_remaining : final_remaining[sid] = 0
        \/ open_days = {}

\* C13: when the call returns, no window day has 10 or more minutes of
\* unallocated capacity, or every subject has 0 remaining minutes, or the
\* highest-priority subject that still has remaining minutes has fewer than 10.
C13_PlacesUntilBlocked ==
    pc = "g_done" =>
        LET cands == candidates_of(today, subjects, final_remaining)
        IN  \/ open_days = {}
            \/ cands = <<>>
            \/ final_remaining[Head(cands).id] < 10

\* tasks were created, the first subject is exhausted, and the days left
\* open stay open because the best remaining subject has under 10 minutes
C13_Witness ==
    /\ pc = "g_done"
    /\ created_tasks # <<>>
    /\ Len(subjects) = 2
    /\ final_remaining[subjects[1].id] = 0
    /\ final_remaining[subjects[2].id] \in 1 .. 9
    /\ open_days # {}

\* the priority by the words of C14, as the fraction <<num, den>>
claim_priority(s) == <<s.difficulty * 10, Max(1, s.deadline - today)>>

\* the allocation step that has just created a task gave it to subjects[k]
gives_to(k) ==
    /\ Len(new_tasks') = Len(new_tasks) + 1
    /\ new_tasks'[Len(new_tasks')].subject_id = subjects[k].id

\* C14: every allocation step gives the task to a subject with remaining
\* minutes > 0 whose priority difficulty*10/max(1, deadline - today) is the
\* highest among the subjects with remaining minutes > 0, and to the earliest
\* of the input list among those of that priority; the priority the code
\* computes is that fraction, finite and positive.
C14_HighestPriorityFirst ==
    [][\A k \in 1 .. Len(subjects) :
          gives_to(k) =>
              /\ remaining[subjects[k].id] > 0
              /\ _priority(today, subjects[k]) = claim_priority(subjects[k])
              /\ claim_priority(subjects[k])[1] > 0
              /\ \A j \in 1 .. Len(subjects) :
                    remaining[subjects[j].id] > 0 =>
                        /\ claim_priority(subjects[k])[1] * claim_priority(subjects[j])[2]
                              >= claim_priority(subjects[j])[1] * claim_priority(subjects[k])[2]
                        /\ (claim_priority(subjects[k])[1] * claim_priority(subjects[j])[2]
                              = claim_priority(subjects[j])[1] * claim_priority(subjects[k])[2])
                           => k <= j]_vars

\* a task went to the second subject, past its deadline by more than the
\* first, while the first still had remaining minutes; or two subjects of
\* equal priority, one with its deadline today, and the task went to the first
C14_Witness ==
    /\ Len(subjects) = 2
    /\ new_tasks # <<>>
    /\ remaining_of(subjects, tasks)[subjects[1].id] > 0
    /\ remaining_of(subjects, tasks)[subjects[2].id] > 0
    /\ \/ /\ new_tasks[1].subject_id = subjects[2].id
          /\ subjects[1].deadline < today
       \/ /\ new_tasks[1].subject_id = subjects[1].id
          /\ subjects[2].deadline = today
          /\ prio_ge(claim_priority(subjects[2]), claim_priority(subjects[1]))

\* the most generate_week_plan may give to the subject s, by the words of C15
claim_allowance(s) ==
    Max(0, round_half_even(s.est_hours[1] * 60, s.est_hours[2])
             - minutes_at(tasks, {j \in 1 .. Len(tasks) : tasks[j].subject_id = s.id}))

\* total minutes of the tasks of ts that belong to the subject with id sid
minutes_for(ts, sid) == minutes_at(ts, {j \in 1 .. Len(ts) : ts[j].subject_id = sid})

\* C15: the new tasks of a subject sum to at most its target minutes less
\* the minutes of all its existing tasks (never below 0), while the plan is
\* built and in the returned list, and every new task belongs to a subject of
\* the subject list.
C15_NeverOverAllocates ==
    /\ \A k \in 1 .. Len(subjects) :
          minutes_for(new_tasks, subjects[k].id) <= claim_allowance(subjects[k])
    /\ \A j \in 1 .. Len(new_tasks) :
          \E k \in 1 .. Len(subjects) : new_tasks[j].subject_id = subjects[k].id
    /\ pc = "g_done" =>
          /\ \A k \in 1 .. Len(subjects) :
                minutes_for(created_tasks, subjects[k].id) <= claim_allowance(subjects[k])
          /\ \A j \in 1 .. Len(created_tasks) :
                \E k \in 1 .. Len(subjects) : created_tasks[j].subject_id = subjects[k].id

\* a subject with a done task and a task of a subject that is not listed:
\* the subject gets new tasks, fewer minutes than its whole target
C15_Witness ==
    /\ pc = "g_done"
    /\ \E k \in 1 .. Len(subjects) :
          /\ \E j \in 1 .. Len(tasks) : tasks[j].subject_id = subjects[k].id /\ tasks[j].done
          /\ minutes_for(created_tasks, subjects[k].id) > 0
          /\ claim_allowance(subjects[k]) < target_minutes(subjects[k])
    /\ \E j \in 1 .. Len(tasks) :
          \A k \in 1 .. Len(subjects) : tasks[j].subject_id # subjects[k].id

(***************************************************************************)
(* The application state (src/app.py): state.subjects and state.tasks of   *)
(* the session, changed by the handlers of the Setup and Plan pages.  The  *)
(* calls of generate_week_plan and reschedule_overdue run as the steps     *)
(* above and the handler then assigns the returned list to state.tasks.    *)
(***************************************************************************)
whitespace == {9, 10, 11, 12, 13, 32}

RECURSIVE lstrip(_)
lstrip(str) ==
    IF str # <<>> /\ Head(str) \in whitespace THEN lstrip(Tail(str)) ELSE str

RECURSIVE rstrip(_)
rstrip(str) ==
    IF str # <<>> /\ str[Len(str)] \in whitespace
    THEN rstrip(SubSeq(str, 1, Len(str) - 1)) ELSE str

\* str.strip()
strip(str) == rstrip(lstrip(str))

\* the Subject built at lines 129-136
added_subject(id, name, deadline, difficulty, est_hours) ==
    [id |-> id, name |-> strip(name), deadline |-> deadline, difficulty |-> difficulty,
     est_hours |-> est_hours, notes |-> ""]

\* "Add subject" (lines 124-139); an empty name only shows a warning
AppAddSubject(name, deadline, difficulty, est_hours) ==
    /\ pc = "idle"
    /\ strip(name) # <<>>
    /\ Len(subjects) < MaxSubjects
    /\ uuid < MaxIds
    /\ subjects' = Append(subjects, added_subject(uuid, name, deadline, difficulty, est_hours))
    /\ uuid' = uuid + 1
    /\ UNCHANGED <<tasks, events, settings, today, ext, pc, result, busy_by_day,
                   genLocals, reschedLocals>>

\* the number of rows the loop of lines 189-221 handles before it returns at
\* line 196, or all of them
rows_handled(rows) ==
    IF \E k \in 1 .. Len(rows) : strip(rows[k].Name) = <<>>
    THEN (CHOOSE k \in 1 .. Len(rows) :
              /\ strip(rows[k].Name) = <<>>
              /\ \A j \in 1 .. k - 1 : strip(rows[j].Name) # <<>>) - 1
    ELSE Len(rows)

\* subject.name = new_name, ... (lines 216-220), on the object in state.subjects
edited_subject(s, row) ==
    [id |-> s.id, name |-> strip(row.Name), deadline |-> row.Deadline,
     difficulty |-> row.Difficulty, est_hours |-> row.Est_hours, notes |-> row.Notes]

\* name_updates of lines 213-214 after the first n rows
name_updates_of(subs, rows, n) ==
    [sid \in {subs[k].id : k \in {j \in 1 .. n : strip(rows[j].Name) # subs[j].name}} |->
        strip(rows[CHOOSE k \in 1 .. n : subs[k].id = sid].Name)]

\* lines 223-226
tasks_renamed(ts, updates) ==
    [j \in 1 .. Len(ts) |->
        IF ts[j].subject_id \in DOMAIN updates
        THEN [ts[j] EXCEPT !.subject_name = updates[ts[j].subject_id]]
        ELSE ts[j]]

\* "Apply changes" (lines 185-231): rows holds one edited record per subject,
\* in the order of state.subjects
AppApplyChanges(rows) ==
    /\ pc = "idle"
    /\ subjects # <<>>
    /\ Len(rows) = Len(subjects)
    /\ LET n == rows_handled(rows)
       IN  /\ subjects' = [k \in 1 .. Len(subjects) |->
                             IF k <= n THEN edited_subject(subjects[k], rows[k])
                             ELSE subjects[k]]
           /\ tasks' = IF n = Len(rows)
                       THEN tasks_renamed(tasks, name_updates_of(subjects, rows, n))
                       ELSE tasks
    /\ UNCHANGED <<events, settings, today, ext, pc, result, uuid, busy_by_day,
                   genLocals, reschedLocals>>

\* "Delete selected", confirmed (lines 233-247)
AppDeleteSelected(selected_ids) ==
    /\ pc = "idle"
    /\ selected_ids # {}
    /\ subjects' = SelectSeq(subjects, LAMBDA s : s.id \notin selected_ids)
    /\ tasks' = SelectSeq(tasks, LAMBDA t : t.subject_id \notin selected_ids)
    /\ UNCHANGED <<events, settings, today, ext, pc, result, uuid, busy_by_day,
                   genLocals, reschedLocals>>

\* state.tasks = generate_week_plan(...) or reschedule_overdue(...), the
\* assignment of lines 419 and 432 once the call has returned
AppAssignTasks ==
    /\ pc \in {"g_done", "r_done"}
    /\ tasks' = result
    /\ pc' = "idle"
    /\ result' = <<>>
    /\ busy_by_day' = empty_dict
    /\ day_capacity' = empty_dict
    /\ remaining' = empty_dict
    /\ chunk' = 0
    /\ new_tasks' = <<>>
    /\ di' = 0
    /\ cap' = 0
    /\ overdue' = <<>>
    /\ keep' = <<>>
    /\ planned_minutes' = empty_dict
    /\ cursor' = 0
    /\ oi' = 0
    /\ minutes_left' = 0
    /\ attempts' = 0
    /\ emitted' = <<>>
    /\ last_call' = [op |-> IF pc = "g_done" THEN "generate" ELSE "reschedule",
                     today |-> today]
    /\ UNCHANGED <<subjects, events, settings, today, others, uuid>>

\* date.today() of line 384 on a later day
AppNextDay ==
    /\ pc = "idle"
    /\ today < FirstDay + MaxDays
    /\ today' = today + 1
    /\ UNCHANGED <<subjects, tasks, events, settings, ext, pc, result, uuid, busy_by_day,
                   genLocals, reschedLocals>>

\* the names typed into the forms: "Math", "art", "" and " art"
AppNames == {name_Math, name_art, <<>>, <<32>> \o name_art}

\* the record of the data editor for the subject s with the Name cell set to name
edited_row(s, name) ==
    [id |-> s.id, Name |-> name, Deadline |-> s.deadline, Difficulty |-> s.difficulty,
     Est_hours |-> s.est_hours, Notes |-> s.notes]

AppSettings ==
    { s \in SettingsChoices :
        s.minutes_per_day = 15 /\ s.rest_days = {} /\ s.daily_buffer_minutes = 0 }

InitApp ==
    /\ subjects = <<>>
    /\ tasks = <<>>
    /\ events = <<>>
    /\ settings \in AppSettings
    /\ today = FirstDay
    /\ uuid = 1
    /\ LocalsInit

NextApp ==
    \/ \E name \in AppNames, difficulty \in {2, 5} :
          AppAddSubject(name, FirstDay + 1, difficulty, <<1, 2>>)
    \/ \E names \in [1 .. Len(subjects) -> AppNames] :
          AppApplyChanges([k \in 1 .. Len(subjects) |-> edited_row(subjects[k], names[k])])
    \/ \E selected_ids \in SUBSET {subjects[k].id : k \in 1 .. Len(subjects)} :
          AppDeleteSelected(selected_ids)
    \/ AppNextDay
    \/ AppAssignTasks
    \/ GenStart
    \/ GenSkipDay
    \/ GenEnterDay
    \/ GenAllocate
    \/ GenEndDay
    \/ GenReturn
    \/ ReschedStart
    \/ ReschedNextTask
    \/ ReschedSkipDay
    \/ ReschedPlace
    \/ ReschedEndTask
    \/ ReschedReturn

SpecApp == InitApp /\ [][NextApp]_vars

\* C17: every task's subject_id is the id of a subject of state.subjects and
\* the task's subject_name is that subject's name.
C17_TasksMatchSubjects ==
    \A j \in 1 .. Len(tasks) :
        \E k \in 1 .. Len(subjects) :
            /\ subjects[k].id = tasks[j].subject_id
            /\ subjects[k].name = tasks[j].subject_name

(***************************************************************************)
(* tasks_to_ics (src/calendar_export.py).  The calendar is the list of its *)
(* components; times are wall-clock seconds, as the datetimes of one       *)
(* timezone subtract.                                                      *)
(***************************************************************************)
\* end_hour of lines 39-41
ics_end_hour(s) ==
    IF s.preferred_end_hour <= s.preferred_start_hour
    THEN Min(23, s.preferred_start_hour + 1)
    ELSE s.preferred_end_hour

\* start_day and end_day of lines 46-47, ts not empty
ics_start_day(ts, week_start) ==
    CHOOSE d \in {week_start} \cup {ts[j].day : j \in 1 .. Len(ts)} :
        \A e \in {week_start} \cup {ts[j].day : j \in 1 .. Len(ts)} : d <= e

ics_end_day(ts, week_start) ==
    CHOOSE d \in {week_start + 6} \cup {ts[j].day : j \in 1 .. Len(ts)} :
        \A e \in {week_start + 6} \cup {ts[j].day : j \in 1 .. Len(ts)} : d >= e

\* day_info with a capacity that leaves out the busy minutes of the events
day_info_ignoring_busy(ts, week_start, s, evs) ==
    LET start_day == ics_start_day(ts, week_start)
        end_day == ics_end_day(ts, week_start)
    IN  [d \in start_day .. end_day |->
            LET window_start == day_start(d) + s.preferred_start_hour * 3600
                at_end_hour == day_start(d) + ics_end_hour(s) * 3600
                window_end == IF at_end_hour <= window_start THEN window_start + 3600
                              ELSE at_end_hour
                c == IF weekday(d) \in s.rest_days THEN 0
                     ELSE Max(0, s.minutes_per_day - s.daily_buffer_minutes)
            IN  [start |-> window_start, cursor |-> window_start, end |-> window_end,
                 available |-> Min((window_end - window_start) \div 60, c)]]

\* day_info after the loops of lines 53-88
day_info_of(ts, week_start, s, evs) ==
    LET start_day == ics_start_day(ts, week_start)
        end_day == ics_end_day(ts, week_start)
        busy == compute_busy_minutes_by_day(evs, start_day, end_day - start_day + 1)
    IN  [d \in start_day .. end_day |->
            LET window_start == day_start(d) + s.preferred_start_hour * 3600
                at_end_hour == day_start(d) + ics_end_hour(s) * 3600
                window_end == IF at_end_hour <= window_start THEN window_start + 3600
                              ELSE at_end_hour
                c == IF weekday(d) \in s.rest_days THEN 0
                     ELSE Max(0, s.minutes_per_day - Get(busy, d, 0) - s.daily_buffer_minutes)
            IN  [start |-> window_start, cursor |-> window_start, end |-> window_end,
                 available |-> Min((window_end - window_start) \div 60, c)]]

\* the event of lines 108-118
study_entry(task, start_time, end_time, day_pointer) ==
    [kind |-> "study", uid |-> task.id, summary |-> task.subject_name,
     dtstart |-> start_time, dtend |-> end_time,
     minutes |-> task.minutes, moved |-> day_pointer # task.day]

RECURSIVE place_minutes(_, _, _, _, _)
\* the while loop of lines 94-125; st holds day_info and the calendar
place_minutes(st, task, left, day_pointer, end_day) ==
    IF ~(left > 0 /\ day_pointer <= end_day)
    THEN [info |-> st.info, cal |-> st.cal, left |-> left]
    ELSE IF day_pointer \notin DOMAIN st.info \/ st.info[day_pointer].available <= 0
    THEN place_minutes(st, task, left, day_pointer + 1, end_day)
    ELSE LET info == st.info[day_pointer]
             potential == Min(left, info.available)
             start_time == info.cursor
             end_time == Min(info.end, start_time + potential * 60)
             actual_minutes == (end_time - start_time) \div 60
             info2 == [info EXCEPT !.cursor = end_time,
                                   !.available = info.available - actual_minutes]
             st2 == [info |-> [st.info EXCEPT ![day_pointer] = info2],
                     cal |-> Append(st.cal, study_entry(task, start_time, end_time, day_pointer))]
         IN  IF actual_minutes <= 0
             THEN place_minutes(st, task, left, day_pointer + 1, end_day)
             ELSE place_minutes(st2, task, left - actual_minutes,
                                IF info2.cursor >= info2.end \/ info2.available <= 0
                                THEN day_pointer + 1 ELSE day_pointer,
                                end_day)

\* pending_unscheduled overwritten by the minutes of the task
pending_last_only(pending, left) == left

\* pending_unscheduled += minutes_left, line 128
pending_after(pending, left) == pending + left

\* the warning of lines 129-131
ics_warning(task, left) == [subject |-> task.subject_name, minutes |-> left]

RECURSIVE export_tasks(_, _, _)
\* the for loop of lines 91-131 over the sorted tasks
export_tasks(st, sorted, end_day) ==
    IF sorted = <<>> THEN st
    ELSE LET task == Head(sorted)
             placed == place_minutes([info |-> st.info, cal |-> st.cal], task,
                                     task.minutes, task.day, end_day)
         IN  export_tasks(
                 [info |-> placed.info, cal |-> placed.cal,
                  pending |-> IF placed.left > 0 THEN pending_after(st.pending, placed.left)
                              ELSE st.pending,
                  warnings |-> IF placed.left > 0
                               THEN Append(st.warnings, ics_warning(task, placed.left))
                               ELSE st.warnings],
                 Tail(sorted), end_day)

\* the event of lines 134-140
unscheduled_entry(pending, end_day) ==
    [kind |-> "unscheduled", minutes |-> pending,
     dtstart |-> day_start(end_day), dtend |-> day_start(end_day + 1)]

tasks_to_ics(ts, week_start, s, evs) ==
    IF ts = <<>> THEN [cal |-> <<>>, warnings |-> <<>>]
    ELSE LET end_day == ics_end_day(ts, week_start)
             out == export_tasks([info |-> day_info_of(ts, week_start, s, evs), cal |-> <<>>,
                                  pending |-> 0, warnings |-> <<>>],
                                 sort_tasks(ts), end_day)
         IN  [cal |-> IF out.pending > 0
                      THEN Append(out.cal, unscheduled_entry(out.pending, end_day))
                      ELSE out.cal,
              warnings |-> out.warnings]

ExportIcs ==
    /\ pc = "idle"
    /\ ics' = tasks_to_ics(tasks, today, settings, events)
    /\ pc' = "x_done"
    /\ UNCHANGED <<inputs, last_call, profVars, limit, storeVars, result, uuid, busy_by_day, genLocals, reschedLocals>>

IcsTaskChoices ==
    TaskChoices \cup
    { [subject_id |-> "s1", subject_name |-> name_Math, day |-> FirstDay + 6,
       minutes |-> 40, done |-> FALSE, notes |-> ""],
      [subject_id |-> "s3", subject_name |-> name_Bio, day |-> FirstDay + 8,
       minutes |-> 90, done |-> TRUE, notes |-> ""] }

IcsTaskLists ==
    UNION { { [i \in 1 .. n |-> with_id(f[i], i)] : f \in [1 .. n -> IcsTaskChoices] }
            : n \in 0 .. MaxTasks }

\* preferred_start_hour, preferred_end_hour 0..23 (models.py)
IcsSettingsChoices ==
    { [s EXCEPT !.preferred_start_hour = h[1], !.preferred_end_hour = h[2]] :
        s \in SettingsChoices \cup {[t EXCEPT !.minutes_per_day = 90] : t \in SettingsChoices},
        h \in {<<18, 22>>, <<22, 18>>, <<23, 5>>} }

InitIcs ==
    /\ subjects = <<>>
    /\ tasks \in IcsTaskLists
    /\ events \in EventLists
    /\ settings \in IcsSettingsChoices
    /\ today = FirstDay
    /\ uuid = Len(tasks) + 1
    /\ LocalsInit

NextIcs == ExportIcs

SpecIcs == InitIcs /\ [][NextIcs]_vars

\* minutes of the calendar entries created for the task with id tid
ics_placed(tid) ==
    sum_at([i \in 1 .. Len(ics.cal) |-> (ics.cal[i].dtend - ics.cal[i].dtstart) \div 60],
           {i \in 1 .. Len(ics.cal) : ics.cal[i].kind = "study" /\ ics.cal[i].uid = tid})

\* the exported tasks with unplaced minutes, in the order of the export
ics_short == SelectSeq(sort_tasks(tasks), LAMBDA t : ics_placed(t.id) < t.minutes)

\* positions of the "Unscheduled Study" entries
ics_markers == {i \in 1 .. Len(ics.cal) : ics.cal[i].kind = "unscheduled"}

\* C18: for every exported task the minutes of its calendar entries never
\* exceed the task's minutes; the warnings are exactly one per task with
\* unplaced minutes, each naming the task's subject and its unplaced minutes
\* (entries plus warning give the task's minutes); an "Unscheduled Study"
\* entry exists exactly when some task has unplaced minutes, there is one at
\* most, and its minutes are the sum of all unplaced minutes.
C18_EveryMinuteAccounted ==
    pc = "x_done" =>
        /\ \A j \in 1 .. Len(tasks) : ics_placed(tasks[j].id) <= tasks[j].minutes
        /\ \A i \in 1 .. Len(ics.cal) :
              ics.cal[i].kind = "study" =>
                  /\ \E j \in 1 .. Len(tasks) : tasks[j].id = ics.cal[i].uid
                  /\ ics.cal[i].dtend > ics.cal[i].dtstart
                  /\ (ics.cal[i].dtend - ics.cal[i].dtstart) % 60 = 0
        /\ ics.warnings =
              [i \in 1 .. Len(ics_short) |->
                  [subject |-> ics_short[i].subject_name,
                   minutes |-> ics_short[i].minutes - ics_placed(ics_short[i].id)]]
        /\ (ics_markers # {}) <=> (ics_short # <<>>)
        /\ Cardinality(ics_markers) <= 1
        /\ \A i \in ics_markers :
              ics.cal[i].minutes =
                  sum_at([k \in 1 .. Len(ics_short) |->
                             ics_short[k].minutes - ics_placed(ics_short[k].id)],
                         1 .. Len(ics_short))

\* two tasks keep unplaced minutes, one of them after a part of it was
\* placed, and the marker carries the sum
C18_Witness ==
    /\ pc = "x_done"
    /\ Len(ics_short) = 2
    /\ ics_placed(ics_short[1].id) > 0 \/ ics_placed(ics_short[2].id) > 0
    /\ Len(ics.warnings) = 2
    /\ \E i \in ics_markers :
          ics.cal[i].minutes = ics.warnings[1].minutes + ics.warnings[2].minutes

(***************************************************************************)
(* Storage (src/storage.py): load_json and save_json on the files of the   *)
(* data directory.  A file is a sequence of bytes: 123 and 125 are the     *)
(* braces, 32 the space, 49 the digit 1, and 255 is a byte that no UTF-8   *)
(* text holds.  The JSON documents over these bytes are the empty object   *)
(* and the integers written with the digit 1.  Writes to the disk succeed: *)
(* the except branch of _backup_file is not taken.                         *)
(***************************************************************************)
target_path == "state.json"

\* path.with_suffix(path.suffix + ".bak"), line 29
bak_path(path) == path \o ".bak"

\* the temporary file is the target itself
tmp_is_target(path) == path

\* path.with_suffix(path.suffix + ".tmp"), line 105
tmp_path(path) == path \o ".tmp"

json_object == [kind |-> "object"]
json_int(n) == [kind |-> "int", value |-> n]

\* read_text(encoding="utf-8") returns the text; it raises UnicodeDecodeError otherwise
decodes(bytes) == \A i \in 1 .. Len(bytes) : bytes[i] < 128

is_object_text(text) ==
    /\ Len(text) >= 2
    /\ text[1] = 123
    /\ text[Len(text)] = 125
    /\ \A i \in 2 .. Len(text) - 1 : text[i] = 32

is_int_text(text) == text # <<>> /\ \A i \in 1 .. Len(text) : text[i] = 49

\* json.loads(text) returns a value; it raises otherwise
json_parses(text) == is_object_text(text) \/ is_int_text(text)

RECURSIVE number_of(_)
number_of(text) ==
    IF text = <<>> THEN 0
    ELSE 10 * number_of(SubSeq(text, 1, Len(text) - 1)) + (text[Len(text)] - 48)

json_loads(text) ==
    IF is_object_text(text) THEN json_object ELSE json_int(number_of(text))

RECURSIVE digits_of(_)
digits_of(n) == IF n < 10 THEN <<48 + n>> ELSE digits_of(n \div 10) \o <<48 + (n % 10)>>

\* json.dumps(payload, ensure_ascii=False, indent=2)
json_dumps(v) == IF v.kind = "object" THEN <<123, 125>> ELSE digits_of(v.value)

\* _deep_copy_default
deep_copy_default(default) == json_loads(json_dumps(default))

\* fs with the file at path holding content
written(fs, path, content) ==
    [k \in DOMAIN fs \cup {path} |-> IF k = path THEN content ELSE fs[k]]

\* temp.replace(path): the target gets the content of temp and temp is gone
replaced(fs, temp, path) ==
    [k \in (DOMAIN fs \cup {path}) \ ({temp} \ {path}) |-> IF k = path THEN fs[temp] ELSE fs[k]]

\* _backup_file
backup_file(fs, path, content) == written(fs, bak_path(path), content)

\* a whole save_json
save_json(fs, path, v) ==
    replaced(written(fs, tmp_path(path), json_dumps(v)), tmp_path(path), path)

\* load_json: the value returned or the exception raised, and the files it leaves
load_json(fs, path, default) ==
    LET default_value == deep_copy_default(default)
    IN  IF path \notin DOMAIN fs
        THEN [value |-> default_value, files |-> fs, reset |-> FALSE]
        ELSE IF ~decodes(fs[path])
        THEN [value |-> [kind |-> "raised", error |-> "UnicodeDecodeError"],
              files |-> fs, reset |-> FALSE]
        ELSE IF strip(fs[path]) = <<>> \/ ~json_parses(strip(fs[path]))
        THEN [value |-> deep_copy_default(default_value),
              files |-> save_json(backup_file(fs, path, fs[path]), path, default_value),
              reset |-> TRUE]
        ELSE [value |-> json_loads(strip(fs[path])), files |-> fs, reset |-> FALSE]

\* the target file as a list of no or one content
target_of(fs) == IF target_path \in DOMAIN fs THEN <<fs[target_path]>> ELSE <<>>

\* no call is running
at_rest == pc \in {"idle", "l_done", "s_done"}

LoadJson(default) ==
    /\ at_rest
    /\ LET r == load_json(files, target_path, default)
       IN  /\ loaded' = <<r.value>>
           /\ files' = r.files
           /\ payload' = IF r.reset THEN <<deep_copy_default(default)>> ELSE payload
           /\ before' = IF r.reset THEN target_of(files) ELSE before
    /\ load_log' = <<[files |-> files, default |-> default]>>
    /\ pc' = "l_done"
    /\ UNCHANGED <<inputs, last_call, profVars, limit, ics, result, uuid, busy_by_day, genLocals, reschedLocals>>

\* save_json is called; json.dumps gives the text (lines 103-107)
SaveBegin(v) ==
    /\ at_rest
    /\ payload' = <<v>>
    /\ before' = target_of(files)
    /\ pc' = "s_open"
    /\ UNCHANGED <<inputs, last_call, profVars, limit, ics, files, loaded, load_log, result, uuid, busy_by_day,
                   genLocals, reschedLocals>>

\* write_text opens temp for writing: the file exists and is empty
SaveOpenTemp ==
    /\ pc = "s_open"
    /\ files' = written(files, tmp_path(target_path), <<>>)
    /\ pc' = "s_write"
    /\ UNCHANGED <<inputs, last_call, profVars, limit, ics, loaded, payload, before, load_log, result, uuid,
                   busy_by_day, genLocals, reschedLocals>>

\* some more bytes of the text reach temp
SaveWriteTemp ==
    /\ pc = "s_write"
    /\ \E n \in Len(files[tmp_path(target_path)]) + 1 .. Len(json_dumps(payload[1])) :
          files' = written(files, tmp_path(target_path), SubSeq(json_dumps(payload[1]), 1, n))
    /\ UNCHANGED <<inputs, last_call, profVars, limit, ics, loaded, payload, before, load_log, pc, result, uuid,
                   busy_by_day, genLocals, reschedLocals>>

\* write_text has written the whole text and closes temp
SaveCloseTemp ==
    /\ pc = "s_write"
    /\ files[tmp_path(target_path)] = json_dumps(payload[1])
    /\ pc' = "s_replace"
    /\ UNCHANGED <<inputs, last_call, profVars, limit, ics, storeVars, result, uuid, busy_by_day,
                   genLocals, reschedLocals>>

\* temp.replace(path), line 110
SaveReplace ==
    /\ pc = "s_replace"
    /\ files' = replaced(files, tmp_path(target_path), target_path)
    /\ pc' = "s_done"
    /\ UNCHANGED <<inputs, last_call, profVars, limit, ics, loaded, payload, before, load_log, result, uuid,
                   busy_by_day, genLocals, reschedLocals>>

\* the process is stopped between two steps of a save
SaveInterrupted ==
    /\ pc \in {"s_open", "s_write", "s_replace"}
    /\ pc' = "idle"
    /\ UNCHANGED <<inputs, last_call, profVars, limit, ics, storeVars, result, uuid, busy_by_day,
                   genLocals, reschedLocals>>

\* contents of the target file: empty, blank, {} (also with blanks), 1, 11,
\* an unclosed brace, {1}, and a byte that is not UTF-8
FileContents ==
    { <<>>, <<32>>, <<123, 125>>, <<32, 123, 32, 125, 32>>, <<49>>, <<49, 49>>,
      <<123>>, <<123, 49, 125>>, <<255>> }

\* the data directory: the target or not, a temporary file left by a stopped
\* save or not, an older backup or not
StoreFiles ==
    { [k \in T \cup B |-> IF k = target_path THEN c
                          ELSE IF k = tmp_path(target_path) THEN <<123>> ELSE <<49>>] :
        c \in FileContents,
        T \in {{}, {target_path}, {target_path, tmp_path(target_path)}},
        B \in {{}, {bak_path(target_path)}} }

JsonValues == {json_object, json_int(1), json_int(11)}

InitStore ==
    /\ subjects = <<>>
    /\ tasks = <<>>
    /\ events = <<>>
    /\ settings \in AppSettings
    /\ today = FirstDay
    /\ uuid = 1
    /\ PlannerInit
    /\ RiskInit
    /\ IcsInit
    /\ ProfilesInit
    /\ files \in StoreFiles
    /\ loaded = <<>>
    /\ payload = <<>>
    /\ before = target_of(files)
    /\ load_log = <<>>

NextStore ==
    \/ \E default \in {json_object, json_int(1)} : LoadJson(default)
    \/ \E v \in JsonValues : SaveBegin(v)
    \/ SaveOpenTemp
    \/ SaveWriteTemp
    \/ SaveCloseTemp
    \/ SaveReplace
    \/ SaveInterrupted

SpecStore == InitStore /\ [][NextStore]_vars

\* the bytes are a JSON document, blanks around it allowed
is_document(bytes) == decodes(bytes) /\ json_parses(strip(bytes))

\* C19: after load_json, a missing file gave the default and the files are
\* as before; a file holding a document gave the parsed document and the
\* files are as before; any other file (empty, blank, unparsable) gave the
\* default, the .bak file holds the bytes the file had, the file holds the
\* default, and a load_json that follows returns the default and changes no file.
C19_LoadTolerates ==
    pc = "l_done" =>
        LET fs0 == load_log[1].files
            dv == deep_copy_default(load_log[1].default)
            again == load_json(files, target_path, load_log[1].default)
        IN  IF target_path \notin DOMAIN fs0
            THEN loaded = <<dv>> /\ files = fs0
            ELSE IF is_document(fs0[target_path])
            THEN loaded = <<json_loads(strip(fs0[target_path]))>> /\ files = fs0
            ELSE /\ loaded = <<dv>>
                 /\ bak_path(target_path) \in DOMAIN files
                 /\ files[bak_path(target_path)] = fs0[target_path]
                 /\ target_path \in DOMAIN files
                 /\ is_document(files[target_path])
                 /\ json_loads(strip(files[target_path])) = dv
                 /\ again.value = dv
                 /\ again.files = files

\* C20: the target file always holds the content it had when the last save
\* began or the whole text of that save's payload, also after the save was
\* stopped between two steps; when a save has completed the target holds the
\* text of the payload and the .tmp file is gone.
C20_AtomicSave ==
    /\ \/ target_of(files) = before
       \/ payload # <<>> /\ target_of(files) = <<json_dumps(payload[1])>>
    /\ pc = "s_done" =>
          /\ target_of(files) = <<json_dumps(payload[1])>>
          /\ tmp_path(target_path) \notin DOMAIN files

\* a save of a two-byte text was stopped after its first byte: the .tmp file
\* holds the half text and the target still holds its different earlier content
C20_Witness ==
    /\ pc = "idle"
    /\ payload # <<>>
    /\ tmp_path(target_path) \in DOMAIN files
    /\ Len(files[tmp_path(target_path)]) = 1
    /\ Len(json_dumps(payload[1])) = 2
    /\ target_of(files) = before
    /\ before # <<>>
    /\ before # <<json_dumps(payload[1])>>
    /\ loaded # <<>>

(***************************************************************************)
(* The order in which reschedule_overdue serves the overdue tasks,         *)
(* checked under SpecResched.                                              *)
(***************************************************************************)
\* the day of the task reschedule_overdue created with this id
day_of_emitted(id) == (CHOOSE t \in {keep[j] : j \in 1 .. Len(keep)} : t.id = id).day

\* a step of a running reschedule_overdue call
resched_step == pc \in {"r_for", "r_while"}

cursor_monotone ==
    /\ (pc = "idle" /\ pc' = "r_for") => cursor' = today
    /\ resched_step => cursor' >= cursor

served_in_input_order ==
    \A i, j \in overdue_input :
        i < j => \A a \in emitted_for(tasks[i].id), b \in emitted_for(tasks[j].id) :
                    day_of_emitted(a) <= day_of_emitted(b)

\* C21: the cursor of reschedule_overdue starts at today and never moves
\* backwards, and for two overdue tasks the first of which precedes the second in
\* the input list, every day holding a piece or the overflow of the first is no
\* later than every day holding a task emitted for the second.
C21_ServedInInputOrder ==
    /\ [][cursor_monotone]_vars
    /\ [](served_in_input_order /\ (resched_step => cursor >= today))

\* two overdue tasks were rescheduled, the first over several days, and the second
\* landed on a later day than the first piece of the first
C21_Witness ==
    /\ pc = "r_done"
    /\ \E i, j \in overdue_input :
          /\ i < j
          /\ Cardinality(emitted_for(tasks[i].id)) >= 2
          /\ \E a \in emitted_for(tasks[i].id), b \in emitted_for(tasks[j].id) :
                day_of_emitted(a) < day_of_emitted(b)

(***************************************************************************)
(* The order of the list reschedule_overdue returns, checked under         *)
(* SpecOrder: task lists in which kept and emitted tasks share a day and   *)
(* names that differ only by case.                                         *)
(***************************************************************************)
name_MATH == <<77, 65, 84, 72>>

OrderTaskChoices ==
    { [subject_id |-> "s1", subject_name |-> name_Math, day |-> FirstDay - 2,
       minutes |-> 40, done |-> FALSE, notes |-> ""],
      [subject_id |-> "s2", subject_name |-> name_art, day |-> FirstDay - 1,
       minutes |-> 5, done |-> FALSE, notes |-> "ch. 2"],
      [subject_id |-> "s1", subject_name |-> name_MATH, day |-> FirstDay,
       minutes |-> 10, done |-> FALSE, notes |-> ""],
      [subject_id |-> "s3", subject_name |-> name_Bio, day |-> FirstDay,
       minutes |-> 20, done |-> TRUE, notes |-> ""] }

OrderTaskLists ==
    UNION { { [i \in 1 .. n |-> with_id(f[i], i)] : f \in [1 .. n -> OrderTaskChoices] }
            : n \in 0 .. MaxTasks + 1 }

InitOrder ==
    /\ subjects = <<>>
    /\ tasks \in OrderTaskLists
    /\ events \in {<<>>, <<ev_short, ev_night>>}
    /\ settings \in {s \in SettingsChoices : s.rest_days # 0 .. 6}
    /\ today = FirstDay
    /\ uuid = Len(tasks) + 1
    /\ LocalsInit

SpecOrder == InitOrder /\ [][NextResched]_vars

\* position of a task of the output in the list before the sort: the kept tasks
\* in input order, then the emitted tasks in the order of their creation
rank_before_sort(t) ==
    IF t.id \in input_ids
    THEN CHOOSE i \in 1 .. Len(tasks) : tasks[i].id = t.id
    ELSE Len(tasks) + (CHOOSE k \in 1 .. Len(emitted) : emitted[k].id = t.id)

same_key(a, b) == a.day = b.day /\ lower(a.subject_name) = lower(b.subject_name)

\* C22: the list reschedule_overdue returns is ordered by (day, lower-cased
\* subject name), and tasks equal on both keys keep the order they had before
\* the sort: kept tasks in input order, before the emitted ones.
C22_SortedByDayAndName ==
    pc = "r_done" =>
        \A k \in 1 .. Len(result) - 1 :
            LET a == result[k]
                b == result[k + 1]
            IN  /\ \/ a.day < b.day
                   \/ a.day = b.day /\ str_le(lower(a.subject_name), lower(b.subject_name))
                /\ same_key(a, b) => rank_before_sort(a) < rank_before_sort(b)

\* a kept task and an emitted one share the day and the lower-cased name, and a
\* name that sorts first only once lower-cased stands before another on a day
C22_Witness ==
    /\ pc = "r_done"
    /\ \E k \in 1 .. Len(result) - 1 :
          /\ same_key(result[k], result[k + 1])
          /\ result[k].id \in input_ids
          /\ result[k + 1].id \notin input_ids
          /\ result[k].subject_name # result[k + 1].subject_name
    /\ \E k \in 1 .. Len(result) - 1 :
          /\ result[k].day = result[k + 1].day
          /\ result[k].subject_name = name_art
          /\ result[k + 1].subject_name = name_MATH

(***************************************************************************)
(* The placement of the study entries in the preferred window, checked     *)
(* under SpecIcs.                                                          *)
(***************************************************************************)
\* positions of the study entries, and of those that start on day d
ics_study == {i \in 1 .. Len(ics.cal) : ics.cal[i].kind = "study"}
ics_study_on(d) == {i \in ics_study : ics.cal[i].dtstart \div seconds_per_day = d}

\* the preferred window of day d by the words of the claim
claim_window_start(d) == day_start(d) + settings.preferred_start_hour * 3600
claim_window_end(d) ==
    IF settings.preferred_end_hour <= settings.preferred_start_hour
    THEN claim_window_start(d) + 3600
    ELSE day_start(d) + settings.preferred_end_hour * 3600

\* the capacity of day d by the capacity model
claim_day_capacity(d) ==
    IF weekday(d) \in settings.rest_days THEN 0
    ELSE Max(0, settings.minutes_per_day - busy_on(events, d) - settings.daily_buffer_minutes)

ics_minutes_on(d) ==
    sum_at([i \in 1 .. Len(ics.cal) |-> (ics.cal[i].dtend - ics.cal[i].dtstart) \div 60],
           ics_study_on(d))

\* C23: the study entries that tasks_to_ics places never overlap each other,
\* each lies inside the preferred window of its day, and those of one day total
\* at most min(window length in minutes, capacity of the day); with
\* preferred_end_hour <= preferred_start_hour the window is the hour that begins
\* at the start hour.
C23_EntriesInsideWindow ==
    pc = "x_done" =>
        /\ \A i \in ics_study :
              LET d == ics.cal[i].dtstart \div seconds_per_day
              IN  /\ claim_window_start(d) <= ics.cal[i].dtstart
                  /\ ics.cal[i].dtstart < ics.cal[i].dtend
                  /\ ics.cal[i].dtend <= claim_window_end(d)
        /\ \A i, j \in ics_study :
              i # j => \/ ics.cal[i].dtend <= ics.cal[j].dtstart
                       \/ ics.cal[j].dtend <= ics.cal[i].dtstart
        /\ \A i \in ics_study :
              LET d == ics.cal[i].dtstart \div seconds_per_day
              IN  ics_minutes_on(d) <=
                      Min((claim_window_end(d) - claim_window_start(d)) \div 60,
                          claim_day_capacity(d))

\* with the end hour before the start hour, two entries fill the one-hour window
\* of a day whose capacity is larger, and the rest of the task moves to a later day
C23_Witness ==
    /\ pc = "x_done"
    /\ settings.preferred_end_hour <= settings.preferred_start_hour
    /\ \E i \in ics_study :
          LET d == ics.cal[i].dtstart \div seconds_per_day
          IN  /\ Cardinality(ics_study_on(d)) = 2
              /\ ics_minutes_on(d) = 60
              /\ claim_day_capacity(d) > 60
              /\ \E j \in ics_study : ics.cal[j].uid = ics.cal[i].uid /\ ics.cal[j].moved

(***************************************************************************)
(* A planner call on the result of the call before it (src/app.py, lines   *)
(* 418-437: state.tasks = reschedule_overdue(state.tasks, ...) and         *)
(* state.tasks = generate_week_plan(..., state.tasks, ...)), checked under *)
(* SpecTwice: subjects, settings, events and today stay as they are.       *)
(***************************************************************************)
\* an overdue task, a done task of the past and a task of tomorrow
TwiceTaskLists ==
    { ts \in TaskLists :
        \A j \in 1 .. Len(ts) : ts[j].subject_id # "s3" /\ ts[j].notes = "" }

\* subjects of 60 and of 4 target minutes
TwiceSubjectLists ==
    { ss \in SubjectLists : \A k \in 1 .. Len(ss) : ss[k].id # "s2" }

InitTwice ==
    /\ subjects \in TwiceSubjectLists
    /\ tasks \in TwiceTaskLists
    /\ events \in EventLists
    /\ settings \in {s \in SettingsChoices :
                        s.daily_buffer_minutes = 0 /\ s.rest_days # 0 .. 6}
    /\ today = FirstDay
    /\ uuid = Len(tasks) + 1
    /\ LocalsInit

NextTwice ==
    \/ AppAssignTasks
    \/ GenStart
    \/ GenSkipDay
    \/ GenEnterDay
    \/ GenAllocate
    \/ GenEndDay
    \/ GenReturn
    \/ ReschedStart
    \/ ReschedNextTask
    \/ ReschedSkipDay
    \/ ReschedPlace
    \/ ReschedEndTask
    \/ ReschedReturn

SpecTwice == InitTwice /\ [][NextTwice]_vars

\* the running call works on the list the same operation returned for the same day
repeats(op) == last_call.op = op /\ last_call.today = today

is_overflow_task(t) ==
    /\ Len(t.notes) >= Len(overflow_note)
    /\ SubSeq(t.notes, Len(t.notes) - Len(overflow_note) + 1, Len(t.notes)) = overflow_note

\* C24: reschedule_overdue applied to its own output with the same settings,
\* today and events creates no task, removes no task and returns the same tasks
\* in the same order.
C24_RescheduleIdempotent ==
    (pc \in {"r_for", "r_while", "r_done"} /\ repeats("reschedule")) =>
        /\ overdue = <<>>
        /\ emitted = <<>>
        /\ pc = "r_done" => result = tasks

\* the second call returned on a list that holds an overflow task, a task on
\* today and a done task of the past
C24_Witness ==
    /\ pc = "r_done"
    /\ repeats("reschedule")
    /\ \E j \in 1 .. Len(tasks) : is_overflow_task(tasks[j])
    /\ \E j \in 1 .. Len(tasks) : ~is_overflow_task(tasks[j]) /\ tasks[j].day = today
    /\ \E j \in 1 .. Len(tasks) : tasks[j].done /\ tasks[j].day < today

\* C25: generate_week_plan called on the output of a first call with the same
\* subjects, settings, events and window start creates no new task and returns
\* the list it was given.
C25_GenerateFixedPoint ==
    (pc \in {"g_for", "g_while", "g_done"} /\ repeats("generate")) =>
        /\ new_tasks = <<>>
        /\ pc = "g_done" => result = tasks

\* the second call returned on a list with a 15-minute task (no task of the
\* inputs has 15 minutes: an earlier call created it), while a subject still has
\* 10 or more remaining minutes and today has no capacity left
C25_Witness ==
    /\ pc = "g_done"
    /\ repeats("generate")
    /\ \E j \in 1 .. Len(tasks) : tasks[j].minutes = 15 /\ tasks[j].day = today
    /\ \E sid \in DOMAIN final_remaining : final_remaining[sid] >= 10
    /\ Get(day_capacity, today, 0) = 0

(***************************************************************************)
(* Starvation in generate_week_plan, checked under SpecGen.                *)
(***************************************************************************)
\* subjects that still have 10 or more remaining minutes in the returned plan
unserved_subjects == {sid \in DOMAIN final_remaining : final_remaining[sid] >= 10}

\* C26: when generate_week_plan returns, no window day has 10 or more minutes of
\* unallocated capacity while some subject still has 10 or more remaining
\* minutes.
C26_NoStarvation ==
    pc = "g_done" => ~(open_days # {} /\ unserved_subjects # {})

(***************************************************************************)
(* The load of the days over a sequence of planner calls (src/app.py,      *)
(* lines 418-437), checked under SpecLoad: the task list starts empty, the *)
(* subjects, settings and events stay as they are, no task is marked done  *)
(* or edited, and the day of the calls moves forward.                      *)
(***************************************************************************)
\* an event that covers every day from FirstDay + 3 on for two horizons
ev_term == [id |-> "e4", title |-> "term",
            start |-> day_start(FirstDay + 3),
            end |-> day_start(FirstDay + 3 + 2 * horizon_days)]

\* date.today() of line 384 some days later
AppLaterDay ==
    /\ pc = "idle"
    /\ today < FirstDay + MaxDays + 2
    /\ today' = today + 1
    /\ UNCHANGED <<subjects, tasks, events, settings, ext, pc, result, uuid, busy_by_day,
                   genLocals, reschedLocals>>

InitLoad ==
    /\ subjects \in {ss \in SubjectLists : Len(ss) = 1 /\ ss[1].id # "s3"}
    /\ tasks = <<>>
    /\ events \in {<<>>, <<ev_short, ev_night>>, <<ev_term>>}
    /\ settings \in {s \in SettingsChoices :
                        s.daily_buffer_minutes = 0 /\ s.rest_days # 0 .. 6}
    /\ today = FirstDay
    /\ uuid = 1
    /\ LocalsInit

NextLoad ==
    \/ AppLaterDay
    \/ AppAssignTasks
    \/ GenStart
    \/ GenSkipDay
    \/ GenEnterDay
    \/ GenAllocate
    \/ GenEndDay
    \/ GenReturn
    \/ ReschedStart
    \/ ReschedNextTask
    \/ ReschedSkipDay
    \/ ReschedPlace
    \/ ReschedEndTask
    \/ ReschedReturn

SpecLoad == InitLoad /\ [][NextLoad]_vars

\* the days that hold a task, and those that hold a task with the overflow annotation
task_days == {tasks[j].day : j \in 1 .. Len(tasks)}
overflow_days == {tasks[j].day : j \in {k \in 1 .. Len(tasks) : is_overflow_task(tasks[k])}}

\* C27: after any sequence of generate_week_plan and reschedule_overdue calls
\* that starts from an empty task list, every day that holds no overflow task
\* has total task minutes at most the capacity of the day: 0 on a rest day,
\* otherwise max(0, minutes_per_day - busy minutes of the events on the day - buffer).
C27_LoadWithinCapacity ==
    pc = "idle" =>
        \A d \in task_days \ overflow_days :
            minutes_at(tasks, {j \in 1 .. Len(tasks) : tasks[j].day = d}) <= claim_day_capacity(d)

(***************************************************************************)
(* Profiles (src/profiles.py).  Profile names and file names are sequences *)
(* of character codes.  profiles.json is held as the list under its        *)
(* "profiles" key (a missing file loads as the empty list, line 56); the   *)
(* data directory is the set of the names of its state files.              *)
(***************************************************************************)
default_name == <<100, 101, 102, 97, 117, 108, 116>>
state_prefix == <<115, 116, 97, 116, 101, 95, 95>>
json_suffix == <<46, 106, 115, 111, 110>>
max_safe_len == 80

\* the characters of the class [A-Za-z0-9_-]
is_safe_char(c) ==
    \/ c >= 65 /\ c <= 90
    \/ c >= 97 /\ c <= 122
    \/ c >= 48 /\ c <= 57
    \/ c = 95
    \/ c = 45

RECURSIVE sub_unsafe_runs(_, _)
\* re.sub(r"[^A-Za-z0-9_-]+", "_", str): every run of other characters becomes one "_"
sub_unsafe_runs(str, in_run) ==
    IF str = <<>> THEN <<>>
    ELSE IF is_safe_char(Head(str)) THEN <<Head(str)>> \o sub_unsafe_runs(Tail(str), FALSE)
    ELSE IF in_run THEN sub_unsafe_runs(Tail(str), TRUE)
    ELSE <<95>> \o sub_unsafe_runs(Tail(str), TRUE)

RECURSIVE strip_char(_, _)
\* str.strip(c) for one character c
strip_char(str, c) ==
    IF str # <<>> /\ Head(str) = c THEN strip_char(Tail(str), c)
    ELSE IF str # <<>> /\ str[Len(str)] = c THEN strip_char(SubSeq(str, 1, Len(str) - 1), c)
    ELSE str

_sanitize_profile_name(name) ==
    LET safe == strip_char(sub_unsafe_runs(strip(name), FALSE), 95)
        named == IF safe = <<>> THEN default_name ELSE safe
    IN  SubSeq(named, 1, Min(max_safe_len, Len(named)))

\* the file name of _profile_path: f"state__{safe}.json"
_profile_path(profile_name) ==
    state_prefix \o _sanitize_profile_name(profile_name) \o json_suffix

\* whether DATA_DIR.glob("state__*.json") yields the file
globbed(file) ==
    /\ Len(file) >= Len(state_prefix) + Len(json_suffix)
    /\ SubSeq(file, 1, Len(state_prefix)) = state_prefix
    /\ SubSeq(file, Len(file) - Len(json_suffix) + 1, Len(file)) = json_suffix

\* path.stem of a file that ends in ".json"
stem(file) == SubSeq(file, 1, Len(file) - Len(json_suffix))

RECURSIVE replace_first(_, _, _)
\* str.replace(old, new, 1)
replace_first(str, old, new) ==
    IF Len(str) < Len(old) THEN str
    ELSE IF SubSeq(str, 1, Len(old)) = old THEN new \o SubSeq(str, Len(old) + 1, Len(str))
    ELSE <<Head(str)>> \o replace_first(Tail(str), old, new)

\* str.replace("_", " ")
underscores_to_spaces(str) == [i \in 1 .. Len(str) |-> IF str[i] = 95 THEN 32 ELSE str[i]]

\* the name list_profiles gives a file found on disk (lines 63-64)
discovered_name(file) ==
    LET suffix == replace_first(stem(file), state_prefix, <<>>)
        name == strip(underscores_to_spaces(suffix))
    IN  IF name = <<>> THEN default_name ELSE name

RECURSIVE combined_of(_, _)
\* lines 66-69: the names in order, without the empty name and without repeats
combined_of(names, acc) ==
    IF names = <<>> THEN acc
    ELSE LET name == Head(names)
         IN  IF name # <<>> /\ \A i \in 1 .. Len(acc) : acc[i] # name
             THEN combined_of(Tail(names), Append(acc, name))
             ELSE combined_of(Tail(names), acc)

\* the orders in which glob may yield the files of the set S
glob_orders(S) ==
    {f \in [1 .. Cardinality(S) -> S] : \A i, j \in 1 .. Cardinality(S) : i # j => f[i] # f[j]}

\* list_profiles: the returned list and profiles.json after the call; found
\* is the sequence of files the glob yields
list_profiles(index, found) ==
    LET discovered == [i \in 1 .. Len(found) |-> discovered_name(found[i])]
        combined == combined_of(index \o discovered, <<>>)
    IN  IF combined = <<>>
        THEN [combined |-> <<default_name>>, index |-> <<default_name>>]
        ELSE [combined |-> combined, index |-> index]

is_in(name, names) == \E i \in 1 .. Len(names) : names[i] = name

\* save_profile: the files and profiles.json after the call
save_profile(index, fs, profile_name, found) ==
    LET listed == list_profiles(index, found)
    IN  [files |-> fs \cup {_profile_path(profile_name)},
         index |-> IF is_in(profile_name, listed.combined) THEN listed.index
                   ELSE Append(listed.combined, profile_name)]

\* the state files of a directory
profile_files(fs) == {f \in fs : globbed(f)}

\* create_profile, lines 106-123; a ValueError leaves what list_profiles wrote.
\* save_profile (line 120) writes the state file, and what it writes to
\* profiles.json is overwritten by line 122.
CreateProfile(profile_name) ==
    /\ pc = "idle"
    /\ LET name == strip(profile_name)
       IN  IF name = <<>> THEN UNCHANGED profVars
           ELSE \E found \in glob_orders(profile_files(state_files)) :
                  LET listed == list_profiles(profile_index, found)
                  IN  IF \/ \E i \in 1 .. Len(listed.combined) :
                               lower(listed.combined[i]) = lower(name)
                         \/ _profile_path(name) \in state_files
                      THEN /\ profile_index' = listed.index
                           /\ UNCHANGED <<state_files, profiles_made>>
                      ELSE /\ state_files' = state_files \cup {_profile_path(name)}
                           /\ profile_index' = Append(listed.combined, name)
                           /\ profiles_made' = profiles_made \cup {name}
    /\ UNCHANGED <<inputs, last_call, limit, ics, storeVars, pc, result, uuid, busy_by_day,
                   genLocals, reschedLocals>>

\* save_profile, lines 97-103
SaveProfile(profile_name) ==
    /\ pc = "idle"
    /\ \E found \in glob_orders(profile_files(state_files \cup {_profile_path(profile_name)})) :
          LET saved == save_profile(profile_index, state_files, profile_name, found)
          IN  /\ state_files' = saved.files
              /\ profile_index' = saved.index
    /\ profiles_made' = profiles_made \cup {profile_name}
    /\ UNCHANGED <<inputs, last_call, limit, ics, storeVars, pc, result, uuid, busy_by_day,
                   genLocals, reschedLocals>>

\* delete_profile, lines 126-137; line 137 overwrites what save_profile("default")
\* wrote to profiles.json
DeleteProfile(profile_name) ==
    /\ pc = "idle"
    /\ LET kept == state_files \ {_profile_path(profile_name)}
       IN  \E found \in glob_orders(profile_files(kept)) :
             LET listed == list_profiles(profile_index, found)
                 profiles == SelectSeq(listed.combined, LAMBDA p : p # profile_name)
             IN  IF profiles = <<>>
                 THEN /\ state_files' = kept \cup {_profile_path(default_name)}
                      /\ profile_index' = <<default_name>>
                 ELSE /\ state_files' = kept
                      /\ profile_index' = profiles
    /\ UNCHANGED <<inputs, last_call, limit, ics, storeVars, profiles_made, pc, result, uuid,
                   busy_by_day, genLocals, reschedLocals>>

\* the names typed or passed: "a_a", "a a", "!" and " b"
ProfileNames == {<<97, 95, 97>>, <<97, 32, 97>>, <<33>>, <<32, 98>>}

InitProfiles ==
    /\ subjects = <<>>
    /\ tasks = <<>>
    /\ events = <<>>
    /\ settings \in AppSettings
    /\ today = FirstDay
    /\ uuid = 1
    /\ LocalsInit

NextProfiles ==
    \/ \E name \in ProfileNames : CreateProfile(name)
    \/ \E name \in ProfileNames : SaveProfile(name)
    \/ \E name \in ProfileNames : DeleteProfile(name)

SpecProfiles == InitProfiles /\ [][NextProfiles]_vars

\* the lists list_profiles can return in the current state
listings ==
    {list_profiles(profile_index, found).combined :
        found \in glob_orders(profile_files(state_files))}

\* C28: the list that list_profiles returns has no two names that resolve to
\* the same state file and no name that was never given to create_profile or
\* save_profile ("default", which the code creates itself, apart).
C28_EachProfileOnce ==
    \A names \in listings :
        /\ \A i, j \in 1 .. Len(names) :
              i # j => _profile_path(names[i]) # _profile_path(names[j])
        /\ \A i \in 1 .. Len(names) : names[i] \in profiles_made \cup {default_name}

====
